---- MODULE Spec2Model ----
(***************************************************************************)
(* Model of the data normalization and aggregation pipeline of the         *)
(* hospital dashboard: parseDateString, processRawData and calculateKPIs   *)
(* of src/utils.ts and the revenue-structure rollup of chartData in        *)
(* src/App.tsx.                                                            *)
(*                                                                         *)
(* Strings are sequences of characters; a character is a one-character     *)
(* TLA+ string, or "U+xxxx" for a code point outside ASCII.  A field absent *)
(* from a row (JavaScript undefined) is the value Undefined.  A JavaScript *)
(* number is NaN or an exact decimal [mant, scale] = mant / 10^scale       *)
(* (binary rounding is not modelled).  A Date is a local calendar          *)
(* timestamp [day, sec]: days since 1970-01-01 and seconds of that day.    *)
(***************************************************************************)
EXTENDS Integers, Sequences, FiniteSets, TLC

VARIABLES
    pc,             \* position of the component under analysis
    dateIn,         \* Date Resolver: the shape the input text was built from
    dateStr,        \* Date Resolver: the input text
    dateRes,        \* Date Resolver: the value returned by parseDateString
    rows,           \* Record Normalizer: the raw rows handed to processRawData
    now,            \* Record Normalizer: the clock read by new Date()
    rawData,        \* App state rawData: the canonical records processRawData returned
    filteredData,   \* the record set handed to calculateKPIs and to chartData
    idx,            \* calculateKPIs: the number of rows its visit loop has processed
    visitDaysMap,   \* calculateKPIs: visit -> largest SO_NGAY_DTRI seen
    visitTypeMap,   \* calculateKPIs: visit -> resolved MA_LOAI_KCB
    visitCostMap,   \* calculateKPIs: visit -> accumulated THANH_TIEN
    kpiStats,       \* the KPIStats calculateKPIs returned
    chartData,      \* the rollups chartData returned
    filters,        \* App state filters: the FilterState
    alerts,         \* the AlertItem list generateAlerts returned
    loading,        \* App state loading
    error,          \* App state error
    activeTab,      \* App state activeTab
    headers,        \* the meta.fields of the parse result handed to handleParseComplete
    exported,       \* what the last call of exportCSV produced
    selectedICDs,   \* App state selectedICDs
    page,           \* DataTable state page
    searchTerm,     \* DataTable state searchTerm
    tableData       \* the data prop of the DataTable

dateVars == <<dateIn, dateStr, dateRes>>
normVars == <<rows, now, rawData>>
kpiVars == <<filteredData, idx, visitDaysMap, visitTypeMap, visitCostMap, kpiStats, chartData>>
appVars == <<filters, alerts, loading, error, activeTab, headers>>
uiVars == <<exported, selectedICDs, page, searchTerm, tableData>>
vars == <<pc, dateVars, normVars, kpiVars, appVars, uiVars>>

DateIdle == dateIn = [null |-> TRUE] /\ dateStr = <<"undefined">> /\ dateRes = [null |-> TRUE]
NormIdle == rows = <<>> /\ now = [null |-> TRUE] /\ rawData = <<>>
KpiIdle ==
    /\ filteredData = <<>> /\ idx = 0
    /\ visitDaysMap = <<>> /\ visitTypeMap = <<>> /\ visitCostMap = <<>>
    /\ kpiStats = [null |-> TRUE] /\ chartData = [null |-> TRUE]
\* the App state of src/App.tsx:38-63 after construction, the parts above excepted
EmptyFilters ==
    [startDate |-> <<>>, endDate |-> <<>>, KHOA |-> <<>>, BAC_SY |-> <<>>, TEN_NHOM |-> <<>>,
     DICH_VU |-> <<>>, TEN_DOI_TUONG |-> <<>>, MA_LOAI_KCB |-> <<>>, MA_BENH |-> <<>>,
     KET_QUA_DTRI |-> <<>>, TINH_TRANG_RV |-> <<>>]
AppIdle ==
    /\ filters = EmptyFilters /\ alerts = <<>>
    /\ loading = FALSE /\ error = [null |-> TRUE]
    /\ activeTab = "overview" /\ headers = <<>>

\* nothing exported, selectedICDs of src/App.tsx:63, the DataTable state of
\* src/components/DataTable.tsx:20-22 over an empty data prop
UiIdle ==
    /\ exported = [null |-> TRUE] /\ selectedICDs = <<>>
    /\ page = 1 /\ searchTerm = <<>> /\ tableData = <<>>

(***************************************************************************)
(* Bounds of the model.                                                    *)
(***************************************************************************)
MaxField == 32      \* day and month fields of generated dates range over 0..MaxField
MaxNumLen == 3      \* longest generated text of a numeric column
MaxRawRows == 2     \* longest generated list of raw rows
MaxRecords == 3     \* longest generated record set of the aggregators

(***************************************************************************)
(* JavaScript values.                                                      *)
(***************************************************************************)
Undefined == <<"undefined">>
Null == [null |-> TRUE]
NaN == [nan |-> TRUE]

Num(n) == [mant |-> n, scale |-> 0]

Max2(a, b) == IF a >= b THEN a ELSE b

RECURSIVE Pow10(_)
Pow10(k) == IF k = 0 THEN 1 ELSE 10 * Pow10(k - 1)

DigitChars == <<"0", "1", "2", "3", "4", "5", "6", "7", "8", "9">>
Digits == {DigitChars[i] : i \in 1..10}
DigitVal(c) == (CHOOSE i \in 1..10 : DigitChars[i] = c) - 1
IsDigits(s) == \A i \in 1..Len(s) : s[i] \in Digits

\* String.prototype.trim, for the one white-space character of the model
RECURSIVE TrimStart(_)
TrimStart(s) == IF s # <<>> /\ Head(s) = " " THEN TrimStart(Tail(s)) ELSE s

RECURSIVE TrimEnd(_)
TrimEnd(s) == IF s # <<>> /\ s[Len(s)] = " " THEN TrimEnd(SubSeq(s, 1, Len(s) - 1)) ELSE s

Trim(s) == TrimEnd(TrimStart(s))

\* String.prototype.split(sep): the pieces between the occurrences of sep
RECURSIVE Split(_, _)
Split(s, sep) ==
    IF \E i \in 1..Len(s) : s[i] = sep
    THEN LET i == CHOOSE j \in 1..Len(s) : s[j] = sep /\ \A k \in 1..(j - 1) : s[k] # sep
         IN  <<SubSeq(s, 1, i - 1)>> \o Split(SubSeq(s, i + 1, Len(s)), sep)
    ELSE <<s>>

\* the longest prefix of s made of digits
RECURSIVE DigitPrefix(_)
DigitPrefix(s) ==
    IF s # <<>> /\ Head(s) \in Digits THEN <<Head(s)>> \o DigitPrefix(Tail(s)) ELSE <<>>

RECURSIVE DigitsToNat(_)
DigitsToNat(s) ==
    IF s = <<>> THEN 0 ELSE 10 * DigitsToNat(SubSeq(s, 1, Len(s) - 1)) + DigitVal(s[Len(s)])

\* parseInt(s, 10): leading white space, an optional sign, the longest run of digits
ParseInt(s) ==
    LET t == TrimStart(s)
        neg == t # <<>> /\ Head(t) = "-"
        u == IF t # <<>> /\ Head(t) \in {"-", "+"} THEN Tail(t) ELSE t
        ds == DigitPrefix(u)
    IN  IF ds = <<>> THEN NaN
        ELSE Num(IF neg THEN 0 - DigitsToNat(ds) ELSE DigitsToNat(ds))

(***************************************************************************)
(* The Date built-in: local calendar arithmetic (proleptic Gregorian).     *)
(***************************************************************************)
DaysFromCivil(y, m, d) ==
    LET yy == IF m <= 2 THEN y - 1 ELSE y
        era == yy \div 400
        yoe == yy - era * 400
        mp == (m + 9) % 12
        doy == (153 * mp + 2) \div 5 + d - 1
        doe == yoe * 365 + yoe \div 4 - yoe \div 100 + doy
    IN  era * 146097 + doe - 719468

CivilFromDays(z) ==
    LET zz == z + 719468
        era == zz \div 146097
        doe == zz - era * 146097
        yoe == (doe - doe \div 1460 + doe \div 36524 - doe \div 146096) \div 365
        doy == doe - (365 * yoe + yoe \div 4 - yoe \div 100)
        mp == (5 * doy + 2) \div 153
        d == doy - (153 * mp + 2) \div 5 + 1
        m == IF mp < 10 THEN mp + 3 ELSE mp - 9
        y == yoe + era * 400
    IN  [y |-> IF m <= 2 THEN y + 1 ELSE y, m |-> m, d |-> d]

\* new Date(y, monthIndex, d, h, min, s): out-of-range components carry over, and a
\* year 0..99 means 1900 + year
NewDate(y, monthIndex, d, h, min, s) ==
    LET fullYear == IF 0 <= y /\ y <= 99 THEN 1900 + y ELSE y
        ym == fullYear + monthIndex \div 12
        mn == monthIndex % 12
        t == h * 3600 + min * 60 + s
    IN  [day |-> DaysFromCivil(ym, mn + 1, 1) + (d - 1) + t \div 86400,
         sec |-> t % 86400]

getFullYear(date) == CivilFromDays(date.day).y
getMonthIndex(date) == CivilFromDays(date.day).m - 1
getDate(date) == CivilFromDays(date.day).d

(***************************************************************************)
(* parseDateString (src/utils.ts)                                          *)
(***************************************************************************)
\* the round-trip test every branch applies to its candidate date
\* variant: the date is returned without the round-trip comparison
RoundTripUnchecked(date, y, m, d) == date

RoundTrip(date, y, m, d) ==
    IF getFullYear(date) = y /\ getMonthIndex(date) = m - 1 /\ getDate(date) = d
    THEN date ELSE Null

\* /^\d{14}$/ : YYYYMMDDHHmmss
TryCompact14(cleanStr) ==
    IF Len(cleanStr) = 14 /\ IsDigits(cleanStr)
    THEN LET y == ParseInt(SubSeq(cleanStr, 1, 4)).mant
             m == ParseInt(SubSeq(cleanStr, 5, 6)).mant
             d == ParseInt(SubSeq(cleanStr, 7, 8)).mant
             h == ParseInt(SubSeq(cleanStr, 9, 10)).mant
             min == ParseInt(SubSeq(cleanStr, 11, 12)).mant
             s == ParseInt(SubSeq(cleanStr, 13, 14)).mant
         IN  RoundTrip(NewDate(y, m - 1, d, h, min, s), y, m, d)
    ELSE Null

\* /^\d{8}$/ : YYYYMMDD
TryCompact8(cleanStr) ==
    IF Len(cleanStr) = 8 /\ IsDigits(cleanStr)
    THEN LET y == ParseInt(SubSeq(cleanStr, 1, 4)).mant
             m == ParseInt(SubSeq(cleanStr, 5, 6)).mant
             d == ParseInt(SubSeq(cleanStr, 7, 8)).mant
         IN  RoundTrip(NewDate(y, m - 1, d, 0, 0, 0), y, m, d)
    ELSE Null

\* /^(\d{n1})<sep>(\d{n2})<sep>(\d{n3})$/ with the allowed lengths of each group
MatchGroups(datePart, sep, lens1, lens2, lens3) ==
    LET parts == Split(datePart, sep)
    IN  /\ Len(parts) = 3
        /\ \A i \in 1..3 : IsDigits(parts[i])
        /\ Len(parts[1]) \in lens1
        /\ Len(parts[2]) \in lens2
        /\ Len(parts[3]) \in lens3

Group(datePart, sep, i) == ParseInt(Split(datePart, sep)[i]).mant

\* 1. dd/MM/yyyy
TryDayMonthYearSlash(datePart) ==
    IF MatchGroups(datePart, "/", {1, 2}, {1, 2}, {4})
    THEN LET d == Group(datePart, "/", 1)
             m == Group(datePart, "/", 2)
             y == Group(datePart, "/", 3)
         IN  RoundTrip(NewDate(y, m - 1, d, 0, 0, 0), y, m, d)
    ELSE Null

\* 2. yyyy-MM-dd
TryYearMonthDayDash(datePart) ==
    IF MatchGroups(datePart, "-", {4}, {1, 2}, {1, 2})
    THEN LET y == Group(datePart, "-", 1)
             m == Group(datePart, "-", 2)
             d == Group(datePart, "-", 3)
         IN  RoundTrip(NewDate(y, m - 1, d, 0, 0, 0), y, m, d)
    ELSE Null

\* 3. MM/dd/yyyy
TryMonthDayYearSlash(datePart) ==
    IF MatchGroups(datePart, "/", {1, 2}, {1, 2}, {4})
    THEN LET m == Group(datePart, "/", 1)
             d == Group(datePart, "/", 2)
             y == Group(datePart, "/", 3)
         IN  RoundTrip(NewDate(y, m - 1, d, 0, 0, 0), y, m, d)
    ELSE Null

\* 4. dd-MM-yyyy
TryDayMonthYearDash(datePart) ==
    IF MatchGroups(datePart, "-", {1, 2}, {1, 2}, {4})
    THEN LET d == Group(datePart, "-", 1)
             m == Group(datePart, "-", 2)
             y == Group(datePart, "-", 3)
         IN  RoundTrip(NewDate(y, m - 1, d, 0, 0, 0), y, m, d)
    ELSE Null

\* a pattern that gave a date returns it; otherwise the patterns after it are tried
ElseTry(date, later) == IF date # Null THEN date ELSE later

\* variant: the month-first slash pattern is tried before the day-first one
parseDateStringMonthFirst(str) ==
    IF str = Undefined \/ str = <<>> THEN Null
    ELSE LET cleanStr == Trim(str)
             datePart == Split(cleanStr, " ")[1]
         IN  ElseTry(TryCompact14(cleanStr),
             ElseTry(TryCompact8(cleanStr),
             ElseTry(TryMonthDayYearSlash(datePart),
             ElseTry(TryYearMonthDayDash(datePart),
             ElseTry(TryDayMonthYearSlash(datePart),
             TryDayMonthYearDash(datePart))))))

\* the first pattern that matches and round-trips gives the date; null when none does
parseDateString(str) ==
    IF str = Undefined \/ str = <<>> THEN Null
    ELSE LET cleanStr == Trim(str)
             datePart == Split(cleanStr, " ")[1]
         IN  ElseTry(TryCompact14(cleanStr),
             ElseTry(TryCompact8(cleanStr),
             ElseTry(TryDayMonthYearSlash(datePart),
             ElseTry(TryYearMonthDayDash(datePart),
             ElseTry(TryMonthDayYearSlash(datePart),
             TryDayMonthYearDash(datePart))))))

(***************************************************************************)
(* Inputs of the Date Resolver: texts built from a form, a year and the    *)
(* two other numeric fields in the order they appear in the text.          *)
(***************************************************************************)
Chars(n) == <<DigitChars[n + 1]>>
Fmt2(n) == Chars((n \div 10) % 10) \o Chars(n % 10)
Fmt4(n) == Fmt2(n \div 100) \o Fmt2(n % 100)
FmtField(n, pad) == IF n < 10 /\ ~pad THEN Chars(n) ELSE Fmt2(n)

Years == {50, 1900, 2023, 2024}
\* hhmmss parts of the 14-digit form: midnight, midday, the last second of the day,
\* minute 60 (carries into the hour), hour 25 and minute 99 at 23h (carry into the day)
TimesOfDay == {<<0, 0, 0>>, <<10, 30, 0>>, <<23, 59, 59>>, <<10, 60, 0>>,
               <<25, 0, 0>>, <<23, 99, 0>>}
TimeSuffix == <<" ", "1", "0", ":", "3", "0">>
Texts == {Undefined,
          <<>>,
          <<" ">>,
          <<"a", "b", "c">>,
          <<"1", "/", "2", "/", "2", "4">>,
          <<"2", "0", "2", "4", "/", "0", "1", "/", "0", "2">>,
          <<"0", "1", ".", "0", "2", ".", "2", "0", "2", "4">>,
          <<"2", "0", "2", "4", "0", "1">>,
          <<"0", "1", "/", "0", "2", "/", "2", "0", "2", "4", "x">>}

NoTime == <<0, 0, 0>>

DateInputs ==
    [form : {"compact8"}, y : Years, first : 0..MaxField, second : 0..MaxField,
     pad : {TRUE}, tod : {NoTime}, suffix : {FALSE}, spaces : {FALSE}, text : {<<>>}]
    \cup
    [form : {"compact14"}, y : Years, first : 0..MaxField, second : 0..MaxField,
     pad : {TRUE}, tod : TimesOfDay, suffix : {FALSE}, spaces : {FALSE}, text : {<<>>}]
    \cup
    [form : {"slash", "ymdDash", "dmyDash"}, y : Years, first : 0..MaxField,
     second : 0..MaxField, pad : BOOLEAN, tod : {NoTime}, suffix : {FALSE},
     spaces : {FALSE}, text : {<<>>}]
    \cup
    [form : {"slash", "ymdDash", "dmyDash"}, y : Years, first : 0..MaxField,
     second : 0..MaxField, pad : {TRUE}, tod : {NoTime}, suffix : {TRUE},
     spaces : {TRUE}, text : {<<>>}]
    \cup
    [form : {"text"}, y : {0}, first : {0}, second : {0}, pad : {TRUE},
     tod : {NoTime}, suffix : {FALSE}, spaces : {FALSE}, text : Texts]

FormatDateInput(in) ==
    LET a == FmtField(in.first, in.pad)
        b == FmtField(in.second, in.pad)
        y == Fmt4(in.y)
        body == CASE in.form = "compact8" -> y \o a \o b
                  [] in.form = "compact14" ->
                         y \o a \o b \o Fmt2(in.tod[1]) \o Fmt2(in.tod[2]) \o Fmt2(in.tod[3])
                  [] in.form = "slash" -> a \o <<"/">> \o b \o <<"/">> \o y
                  [] in.form = "ymdDash" -> y \o <<"-">> \o a \o <<"-">> \o b
                  [] in.form = "dmyDash" -> a \o <<"-">> \o b \o <<"-">> \o y
                  [] OTHER -> in.text
        timed == IF in.suffix THEN body \o TimeSuffix ELSE body
    IN  IF in.spaces THEN <<" ">> \o timed \o <<" ">> ELSE timed

(***************************************************************************)
(* Specification of the Date Resolver: one text is drawn and resolved.     *)
(***************************************************************************)
InitDate ==
    /\ pc = "date"
    /\ dateIn \in DateInputs
    /\ dateStr = FormatDateInput(dateIn)
    /\ dateRes = Null
    /\ NormIdle
    /\ KpiIdle
    /\ AppIdle
    /\ UiIdle

ResolveDate ==
    /\ pc = "date"
    /\ dateRes' = parseDateString(dateStr)
    /\ pc' = "dateDone"
    /\ UNCHANGED <<uiVars, dateIn, dateStr, normVars, kpiVars, appVars>>

NextDate == ResolveDate

SpecDate == InitDate /\ [][NextDate]_vars

(***************************************************************************)
(* Properties of the Date Resolver.                                        *)
(***************************************************************************)
\* the calendar, stated independently of the Date arithmetic above
IsLeapYear(y) == (y % 4 = 0 /\ y % 100 # 0) \/ y % 400 = 0
DaysInMonth(y, m) ==
    IF m = 2 THEN (IF IsLeapYear(y) THEN 29 ELSE 28)
    ELSE IF m \in {4, 6, 9, 11} THEN 30 ELSE 31
ValidCalendar(y, m, d) == m \in 1..12 /\ d \in 1..DaysInMonth(y, m)

\* the year, month and day an input text denotes under its form's own reading
\* (day first for the slash form)
InYear == dateIn.y
InMonth == IF dateIn.form \in {"slash", "dmyDash"} THEN dateIn.second ELSE dateIn.first
InDay == IF dateIn.form \in {"slash", "dmyDash"} THEN dateIn.first ELSE dateIn.second
InTimeValid == dateIn.tod[1] < 24 /\ dateIn.tod[2] < 60 /\ dateIn.tod[3] < 60
InValid == ValidCalendar(InYear, InMonth, InDay)
\* the month-first reading of a slash text
InSwappedValid == ValidCalendar(InYear, dateIn.first, dateIn.second)

IsDateOf(date, y, m, d) ==
    date # Null /\ getFullYear(date) = y /\ getMonthIndex(date) = m - 1 /\ getDate(date) = d

ClaimedForms == {"compact14", "compact8", "slash", "ymdDash"}

\* C8 as stated: a valid calendar date in the 14-digit, 8-digit, dd/mm/yyyy or
\* yyyy-mm-dd form resolves to a date with the input's year, month and day; an input in
\* one of these forms that is no valid calendar date, and a text in no form, resolve
\* to null.
C8_AsStated ==
    pc = "dateDone" =>
        /\ (dateIn.form \in ClaimedForms /\ InTimeValid /\ InValid)
               => IsDateOf(dateRes, InYear, InMonth, InDay)
        /\ (dateIn.form \in ClaimedForms /\ InTimeValid /\ ~InValid) => dateRes = Null
        /\ dateIn.form = "text" => dateRes = Null

\* C8 (amended): with a year >= 100, a valid calendar date in the 14-digit (with a
\* valid time of day), 8-digit, dd/mm/yyyy or yyyy-mm-dd form resolves to a date with
\* the input's year, month and day.  An input in the 14-digit, 8-digit or yyyy-mm-dd
\* form that is no valid calendar date, or whose year is below 100, resolves to null.
\* A dd/mm/yyyy text that is no valid date day-first resolves to the month-first date
\* when that reading is valid with a year >= 100, and to null otherwise.  A text in
\* none of the forms resolves to null.
C8_RoundTripOrNull ==
    pc = "dateDone" =>
        /\ (dateIn.form \in ClaimedForms /\ InTimeValid /\ InValid /\ InYear >= 100)
               => IsDateOf(dateRes, InYear, InMonth, InDay)
        /\ (dateIn.form \in ClaimedForms \ {"slash"} /\ InTimeValid
                /\ ~(InValid /\ InYear >= 100))
               => dateRes = Null
        /\ (dateIn.form = "slash" /\ ~InValid /\ InSwappedValid /\ InYear >= 100)
               => IsDateOf(dateRes, InYear, dateIn.first, dateIn.second)
        /\ (dateIn.form = "slash" /\ ~(InValid /\ InYear >= 100)
                /\ ~(InSwappedValid /\ InYear >= 100))
               => dateRes = Null
        /\ dateIn.form = "text" => dateRes = Null

\* a leap day in the 14-digit form was resolved
C8_Witness ==
    /\ pc = "dateDone"
    /\ dateIn.form = "compact14" /\ dateIn.tod = <<23, 59, 59>>
    /\ dateIn.y = 2024 /\ dateIn.first = 2 /\ dateIn.second = 29
    /\ IsDateOf(dateRes, 2024, 2, 29)

\* C9 as stated: a slash text a/b/yyyy resolves day-first (day a, month b) whenever
\* that is a valid calendar date; the month-first date is returned only when the
\* day-first reading is invalid and the month-first reading is valid.
C9_AsStated ==
    (pc = "dateDone" /\ dateIn.form = "slash") =>
        /\ InValid => IsDateOf(dateRes, InYear, dateIn.second, dateIn.first)
        /\ (dateRes # Null /\ ~IsDateOf(dateRes, InYear, dateIn.second, dateIn.first))
               => (~InValid /\ InSwappedValid
                   /\ IsDateOf(dateRes, InYear, dateIn.first, dateIn.second))

\* C9 (amended): the same for a slash text whose year is >= 100; with a year below 100
\* neither reading is returned.
C9_DayFirst ==
    (pc = "dateDone" /\ dateIn.form = "slash") =>
        /\ (InValid /\ InYear >= 100)
               => IsDateOf(dateRes, InYear, dateIn.second, dateIn.first)
        /\ (dateRes # Null /\ ~IsDateOf(dateRes, InYear, dateIn.second, dateIn.first))
               => (~InValid /\ InSwappedValid
                   /\ IsDateOf(dateRes, InYear, dateIn.first, dateIn.second))
        /\ InYear < 100 => dateRes = Null

\* the ambiguous text 3/4/2024 was resolved to the 3rd of April
C9_Witness ==
    /\ pc = "dateDone"
    /\ dateIn.form = "slash" /\ dateIn.y = 2024 /\ dateIn.first = 3 /\ dateIn.second = 4
    /\ IsDateOf(dateRes, 2024, 4, 3)

(***************************************************************************)
(* processRawData (src/utils.ts)                                           *)
(***************************************************************************)
\* variant: only an absent value is replaced, an empty string is kept
OrElseOnlyAbsent(s, dflt) == IF s = Undefined THEN dflt ELSE s

\* a || b on strings: undefined and the empty string are falsy
OrElse(s, dflt) == IF s = Undefined \/ s = <<>> THEN dflt ELSE s

NotComma(c) == c # ","
\* s?.replace(/,/g, '')
RemoveCommas(s) == IF s = Undefined THEN Undefined ELSE SelectSeq(s, NotComma)

\* a decimal without trailing zeros in its fraction, so that equal numbers are equal values
RECURSIVE Canon(_)
Canon(n) ==
    IF n.scale > 0 /\ n.mant % 10 = 0
    THEN Canon([mant |-> n.mant \div 10, scale |-> n.scale - 1])
    ELSE n

\* parseFloat(s): leading white space, an optional sign, digits with an optional
\* fraction; NaN when no digit is found (exponents and "Infinity" are outside the
\* alphabet of the generated texts)
ParseFloat(s) ==
    LET t == TrimStart(s)
        neg == t # <<>> /\ Head(t) = "-"
        u == IF t # <<>> /\ Head(t) \in {"-", "+"} THEN Tail(t) ELSE t
        intPart == DigitPrefix(u)
        rest == SubSeq(u, Len(intPart) + 1, Len(u))
        frac == IF rest # <<>> /\ Head(rest) = "." THEN DigitPrefix(Tail(rest)) ELSE <<>>
        mag == DigitsToNat(intPart \o frac)
    IN  IF intPart = <<>> /\ frac = <<>> THEN NaN
        ELSE Canon([mant |-> IF neg THEN 0 - mag ELSE mag, scale |-> Len(frac)])

\* differenceInDays of date-fns: the number of full days from dateRight to dateLeft,
\* truncated towards zero
differenceInDays(dateLeft, dateRight) ==
    LET diff == dateLeft.day - dateRight.day
    IN  IF diff > 0 /\ dateLeft.sec < dateRight.sec THEN diff - 1
        ELSE IF diff < 0 /\ dateLeft.sec > dateRight.sec THEN diff + 1
        ELSE diff

getYear(date) == getFullYear(date)
getMonth(date) == getMonthIndex(date)
getQuarter(date) == getMonthIndex(date) \div 3 + 1

\* variant: the discharge date is preferred to the payment date
StatDateDischargeFirst(ngayThanhToan, ngayRaVien, ngayVaoVien, clock) ==
    IF ngayRaVien # Null THEN ngayRaVien
    ELSE IF ngayThanhToan # Null THEN ngayThanhToan
    ELSE IF ngayVaoVien # Null THEN ngayVaoVien
    ELSE clock

\* ngayThanhToan || ngayRaVien || ngayVaoVien, else new Date()
StatDate(ngayThanhToan, ngayRaVien, ngayVaoVien, clock) ==
    IF ngayThanhToan # Null THEN ngayThanhToan
    ELSE IF ngayRaVien # Null THEN ngayRaVien
    ELSE IF ngayVaoVien # Null THEN ngayVaoVien
    ELSE clock

\* soLuong, thanhTien: parseFloat(text?.replace(/,/g, '') || '0')
ParseAmount(text) == ParseFloat(OrElse(RemoveCommas(text), <<"0">>))

\* soNgayDtri: the source value, or the inclusive day count when the source value is
\* falsy (0 or NaN) and both dates resolved, and 0 when it is still NaN
TreatmentDays(text, ngayRaVien, ngayVaoVien) ==
    LET parsed == ParseInt(OrElse(text, <<"0">>))
        falsy == parsed = NaN \/ parsed.mant = 0
        computed == IF falsy /\ ngayRaVien # Null /\ ngayVaoVien # Null
                    THEN Num(differenceInDays(ngayRaVien, ngayVaoVien) + 1)
                    ELSE parsed
    IN  IF computed = NaN THEN Num(0) ELSE computed

S_Unknown == <<"U", "n", "k", "n", "o", "w", "n">>
S_Other == <<"O", "t", "h", "e", "r">>

RECURSIVE FmtNat(_)
FmtNat(n) == IF n < 10 THEN Chars(n) ELSE FmtNat(n \div 10) \o Chars(n % 10)

\* a value inside a template literal
ToText(s) == IF s = Undefined THEN <<"u", "n", "d", "e", "f", "i", "n", "e", "d">> ELSE s

\* the body of data.map((row, index) => ...)
ProcessRow(row, index, clock) ==
    LET ngayVaoVien == parseDateString(row.NGAY_VAO_VIEN)
        ngayRaVien == parseDateString(row.NGAY_RA_VIEN)
        ngayThanhToan == parseDateString(row.NGAY_THANH_TOAN)
        ngayThongKe == StatDate(ngayThanhToan, ngayRaVien, ngayVaoVien, clock)
        maBenh == OrElse(Trim(OrElse(row.MA_BENH, <<>>)), S_Unknown)
    IN  [id |-> FmtNat(index) \o <<"-">> \o ToText(row.MA_LK),
         TEN_DOI_TUONG |-> OrElse(row.TEN_DOI_TUONG, S_Unknown),
         MA_LK |-> row.MA_LK,
         MA_BN |-> row.MA_BN,
         NGAY_VAO_VIEN |-> ngayVaoVien,
         NGAY_VAO_KHOA |-> parseDateString(row.NGAY_VAO_KHOA),
         NGAY_RA_VIEN |-> ngayRaVien,
         NGAY_THANH_TOAN |-> ngayThanhToan,
         NGAY_THONG_KE |-> ngayThongKe,
         SO_NGAY_DTRI |-> TreatmentDays(row.SO_NGAY_DTRI, ngayRaVien, ngayVaoVien),
         KET_QUA_DTRI |-> OrElse(row.KET_QUA_DTRI, S_Unknown),
         MA_BENH |-> maBenh,
         CHAN_DOAN |-> OrElse(row.CHAN_DOAN, <<>>),
         BAC_SY |-> OrElse(row.BAC_SY, S_Unknown),
         KHOA |-> OrElse(row.KHOA, S_Unknown),
         TEN_NHOM |-> OrElse(row.TEN_NHOM, S_Other),
         DICH_VU |-> OrElse(row.DICH_VU, S_Unknown),
         SO_LUONG |-> ParseAmount(row.SO_LUONG),
         THANH_TIEN |-> ParseAmount(row.THANH_TIEN),
         MA_LOAI_KCB |-> OrElse(row.MA_LOAI_KCB, <<>>),
         TINH_TRANG_RV |-> OrElse(row.TINH_TRANG_RV, <<>>),
         NAM |-> getYear(ngayThongKe),
         THANG |-> getMonth(ngayThongKe) + 1,
         QUY |-> getQuarter(ngayThongKe)]

NumberParsed(rec) == rec.THANH_TIEN # NaN

\* variant: the rows whose amount does not parse are dropped
processRawDataDropping(data, clock) ==
    SelectSeq([i \in 1..Len(data) |-> ProcessRow(data[i], i - 1, clock)], NumberParsed)

processRawData(data, clock) == [i \in 1..Len(data) |-> ProcessRow(data[i], i - 1, clock)]

(***************************************************************************)
(* Inputs of the Record Normalizer.                                        *)
(***************************************************************************)
SlashText(d, m, y) == Fmt2(d) \o <<"/">> \o Fmt2(m) \o <<"/">> \o Fmt4(y)
Compact14Text(y, m, d, h, min, sec) ==
    Fmt4(y) \o Fmt2(m) \o Fmt2(d) \o Fmt2(h) \o Fmt2(min) \o Fmt2(sec)

\* absent, empty, unparseable, an impossible date, and three dates of which two carry a
\* time of day
DateTexts == {Undefined,
              <<>>,
              <<"a", "b", "c">>,
              SlashText(31, 2, 2024),
              SlashText(1, 1, 2024),
              Compact14Text(2024, 1, 3, 1, 0, 0),
              Compact14Text(2023, 12, 30, 23, 0, 0)}

DaysTexts == {Undefined, <<>>, <<"0">>, <<"3">>, <<"-", "2">>, <<"a", "b", "c">>,
              <<"2", ".", "7">>, <<" ", "4">>}

NumAlphabet == {"0", "1", ",", ".", "-", "x", " "}
NumTexts == {Undefined} \cup UNION {[1..n -> NumAlphabet] : n \in 0..MaxNumLen}
QtyTexts == {Undefined, <<"2">>, <<"1", ",", "5">>, <<"x">>}

FieldTexts == {Undefined, <<>>, <<" ">>, <<" ", "A", " ">>}

NowSamples == {NewDate(2024, 5, 15, 9, 30, 0), NewDate(2025, 0, 1, 0, 0, 0)}

BaseRow ==
    [TEN_DOI_TUONG |-> <<"B", "H">>,
     MA_LK |-> <<"V", "1">>,
     MA_BN |-> <<"P", "1">>,
     NGAY_VAO_VIEN |-> SlashText(1, 1, 2024),
     NGAY_VAO_KHOA |-> SlashText(1, 1, 2024),
     NGAY_RA_VIEN |-> SlashText(2, 1, 2024),
     NGAY_THANH_TOAN |-> SlashText(2, 1, 2024),
     SO_NGAY_DTRI |-> <<"2">>,
     KET_QUA_DTRI |-> <<"1">>,
     MA_BENH |-> <<"J", "1", "8">>,
     CHAN_DOAN |-> <<"c">>,
     BAC_SY |-> <<"D", "1">>,
     KHOA |-> <<"K", "1">>,
     TEN_NHOM |-> <<"4">>,
     DICH_VU |-> <<"s">>,
     SO_LUONG |-> <<"1">>,
     THANH_TIEN |-> <<"1", "0", "0">>,
     MA_LOAI_KCB |-> <<"0", "1">>,
     TINH_TRANG_RV |-> <<"1">>]

\* rows that vary in their dates and treatment days
DateRows ==
    {[BaseRow EXCEPT !.NGAY_VAO_VIEN = a, !.NGAY_RA_VIEN = b, !.NGAY_THANH_TOAN = c,
                     !.SO_NGAY_DTRI = n] :
        a \in DateTexts, b \in DateTexts, c \in DateTexts, n \in DaysTexts}

\* rows that vary in their numeric columns
NumberRows ==
    {[BaseRow EXCEPT !.THANH_TIEN = t, !.SO_LUONG = q] : t \in NumTexts, q \in QtyTexts}

\* rows that vary in their text columns
TextRows ==
    {[BaseRow EXCEPT !.MA_BENH = b, !.MA_LK = k, !.TEN_DOI_TUONG = t, !.KET_QUA_DTRI = t,
                     !.CHAN_DOAN = t, !.BAC_SY = t, !.KHOA = t, !.TEN_NHOM = t,
                     !.DICH_VU = t, !.MA_LOAI_KCB = t, !.TINH_TRANG_RV = t,
                     !.NGAY_VAO_KHOA = t] :
        b \in FieldTexts, k \in {Undefined, <<"V", "2">>}, t \in FieldTexts}

RawRows == DateRows \cup NumberRows \cup TextRows

\* the rows of the lists that have more than one row
MoreRows == {BaseRow,
             [BaseRow EXCEPT !.MA_LK = <<"V", "2">>, !.THANH_TIEN = <<"x">>,
                             !.NGAY_THANH_TOAN = Undefined],
             [BaseRow EXCEPT !.SO_NGAY_DTRI = <<"0">>, !.NGAY_THANH_TOAN = <<"a", "b", "c">>,
                             !.NGAY_RA_VIEN = Compact14Text(2024, 1, 3, 1, 0, 0)]}

\* the lists of at most max rows: every row alone, and the lists of the rows above
RawRowLists(max) ==
    {<<r>> : r \in RawRows} \cup UNION {[1..n -> MoreRows] : n \in 0..max}

(***************************************************************************)
(* Specification of the Record Normalizer: a list of raw rows is drawn and *)
(* processRawData maps it.                                                 *)
(***************************************************************************)
InitNorm ==
    /\ pc = "raw"
    /\ rows \in RawRowLists(MaxRawRows)
    /\ now \in NowSamples
    /\ rawData = <<>>
    /\ DateIdle
    /\ KpiIdle
    /\ AppIdle
    /\ UiIdle

ProcessRawData ==
    /\ pc = "raw"
    /\ rawData' = processRawData(rows, now)
    /\ pc' = "normalized"
    /\ UNCHANGED <<uiVars, rows, now, dateVars, kpiVars, appVars>>

NextNorm == ProcessRawData

SpecNorm == InitNorm /\ [][NextNorm]_vars

(***************************************************************************)
(* Properties of the Record Normalizer.                                    *)
(***************************************************************************)
Normalized == pc = "normalized"
RowIndexes == 1..Len(rows)

NonNegativeNumber(n) == n # NaN /\ n.mant >= 0

\* a text that is present and not empty
Present(text) == text # Undefined /\ text # <<>>

\* C5 as stated: SO_LUONG and THANH_TIEN of every record are non-NaN and non-negative,
\* and a value that is absent, empty or does not parse as a number (after the commas
\* are stripped) yields 0.
C5_AsStated ==
    Normalized =>
        \A i \in RowIndexes :
            /\ NonNegativeNumber(rawData[i].SO_LUONG)
            /\ NonNegativeNumber(rawData[i].THANH_TIEN)
            /\ (~Present(rows[i].THANH_TIEN)
                    \/ ParseFloat(RemoveCommas(rows[i].THANH_TIEN)) = NaN)
                   => rawData[i].THANH_TIEN = Num(0)

\* C6 as stated: SO_NGAY_DTRI is an integer >= 0; a source value that is present and
\* parses to a number >= 0 (0 included) is kept unchanged; only an absent or invalid
\* source value is replaced by (discharge - admission in days) + 1, or by 0 when the
\* two dates are not both available.
C6_AsStated ==
    Normalized =>
        \A i \in RowIndexes :
            LET source == rows[i].SO_NGAY_DTRI
                parsed == IF Present(source) THEN ParseInt(source) ELSE NaN
                days == rawData[i].SO_NGAY_DTRI
                ra == rawData[i].NGAY_RA_VIEN
                vao == rawData[i].NGAY_VAO_VIEN
            IN  /\ days # NaN /\ days.scale = 0 /\ days.mant >= 0
                /\ IF NonNegativeNumber(parsed) THEN days = parsed
                   ELSE IF ra # Null /\ vao # Null
                        THEN days = Num(differenceInDays(ra, vao) + 1)
                        ELSE days = Num(0)

\* C10: NGAY_THONG_KE of every record is a date: the resolved payment date if the
\* payment text resolves, else the resolved discharge date, else the resolved admission
\* date, else the clock; NAM, THANG (1..12) and QUY (1..4, the THANG-th month's quarter)
\* are the year, month and quarter of that date.
C10_StatDate ==
    Normalized =>
        \A i \in RowIndexes :
            LET rec == rawData[i]
                pay == parseDateString(rows[i].NGAY_THANH_TOAN)
                ra == parseDateString(rows[i].NGAY_RA_VIEN)
                vao == parseDateString(rows[i].NGAY_VAO_VIEN)
                civil == CivilFromDays(rec.NGAY_THONG_KE.day)
            IN  /\ rec.NGAY_THONG_KE # Null
                /\ pay # Null => rec.NGAY_THONG_KE = pay
                /\ (pay = Null /\ ra # Null) => rec.NGAY_THONG_KE = ra
                /\ (pay = Null /\ ra = Null /\ vao # Null) => rec.NGAY_THONG_KE = vao
                /\ (pay = Null /\ ra = Null /\ vao = Null) => rec.NGAY_THONG_KE = now
                /\ rec.NAM = civil.y
                /\ rec.THANG = civil.m /\ rec.THANG \in 1..12
                /\ rec.QUY \in 1..4 /\ rec.QUY = (rec.THANG + 2) \div 3

\* only the admission date of a row resolved, and it became the row's NGAY_THONG_KE
C10_Witness ==
    /\ Normalized
    /\ rawData[1].NGAY_THANH_TOAN = Null
    /\ rawData[1].NGAY_RA_VIEN = Null
    /\ rawData[1].NGAY_VAO_VIEN # Null
    /\ rawData[1].NGAY_THONG_KE = rawData[1].NGAY_VAO_VIEN
    /\ rawData[1].THANG = 12 /\ rawData[1].QUY = 4 /\ rawData[1].NAM = 2023

\* C11: processRawData returns one record per raw row, in the order of the rows: the
\* i-th record carries the MA_LK of the i-th row and has the id "<i - 1>-<MA_LK>",
\* whatever the dates and numbers of the row look like.
C11_TotalInOrder ==
    Normalized =>
        /\ Len(rawData) = Len(rows)
        /\ \A i \in RowIndexes :
               /\ rawData[i].MA_LK = rows[i].MA_LK
               /\ rawData[i].id = FmtNat(i - 1) \o <<"-">> \o ToText(rows[i].MA_LK)
               /\ rawData[i].NGAY_THONG_KE # Null

\* two rows were normalised, the second one with an amount and a payment date that do
\* not parse
C11_Witness ==
    /\ Normalized
    /\ Len(rows) = 2 /\ Len(rawData) = 2
    /\ rows[2].THANH_TIEN = <<"x">> /\ rows[2].NGAY_THANH_TOAN = Undefined
    /\ rawData[1].id = <<"0", "-", "V", "1">>
    /\ rawData[2].id = <<"1", "-", "V", "2">>

\* the sentinel a missing text column gets
SentinelOf(field) == IF field = "TEN_NHOM" THEN S_Other ELSE S_Unknown
SentinelFields == {"KHOA", "BAC_SY", "DICH_VU", "KET_QUA_DTRI", "TEN_DOI_TUONG", "TEN_NHOM"}

\* C12: MA_BENH of a record is the trimmed source text, and 'Unknown' when the source is
\* absent, empty or only white space; KHOA, BAC_SY, DICH_VU, KET_QUA_DTRI and
\* TEN_DOI_TUONG are 'Unknown' and TEN_NHOM is 'Other' when the source is absent or
\* empty, and the source text otherwise; none of these fields is the empty string.
C12_Sentinels ==
    Normalized =>
        \A i \in RowIndexes :
            /\ rawData[i].MA_BENH =
                   (IF Present(rows[i].MA_BENH) /\ Trim(rows[i].MA_BENH) # <<>>
                    THEN Trim(rows[i].MA_BENH) ELSE S_Unknown)
            /\ rawData[i].MA_BENH # <<>>
            /\ \A f \in SentinelFields :
                   /\ rawData[i][f] = (IF Present(rows[i][f]) THEN rows[i][f] ELSE SentinelOf(f))
                   /\ rawData[i][f] # <<>>

\* a row with empty text columns and a white-space diagnosis code got its sentinels
C12_Witness ==
    /\ Normalized
    /\ rows[1].KHOA = <<>> /\ rows[1].TEN_NHOM = <<>> /\ rows[1].MA_BENH = <<" ">>
    /\ rawData[1].KHOA = S_Unknown /\ rawData[1].TEN_NHOM = S_Other
    /\ rawData[1].MA_BENH = S_Unknown

(***************************************************************************)
(* JavaScript numbers and strings used by the aggregators.                 *)
(***************************************************************************)
Scaled(n, s) == n.mant * Pow10(s - n.scale)

\* a + b
JsAdd(a, b) ==
    IF a = NaN \/ b = NaN THEN NaN
    ELSE LET s == Max2(a.scale, b.scale)
         IN  Canon([mant |-> Scaled(a, s) + Scaled(b, s), scale |-> s])

\* a > b: false when either side is NaN
JsGt(a, b) ==
    /\ a # NaN /\ b # NaN
    /\ LET s == Max2(a.scale, b.scale) IN Scaled(a, s) > Scaled(b, s)

\* n || 0: NaN and 0 are falsy
OrZero(n) == IF n = NaN THEN Num(0) ELSE n

\* String.prototype.includes
Includes(s, sub) ==
    \E i \in 0..(Len(s) - Len(sub)) : SubSeq(s, i + 1, i + Len(sub)) = sub

ComposeTable ==
    {<<"a", "U+0301", "U+00E1">>,
     <<"a", "U+0302", "U+00E2">>,
     <<"a", "U+0306", "U+0103">>,
     <<"a", "U+0309", "U+1EA3">>,
     <<"a", "U+0323", "U+1EA1">>,
     <<"e", "U+0301", "U+00E9">>,
     <<"e", "U+0302", "U+00EA">>,
     <<"e", "U+0323", "U+1EB9">>,
     <<"i", "U+0300", "U+00EC">>,
     <<"i", "U+0323", "U+1ECB">>,
     <<"o", "U+0301", "U+00F3">>,
     <<"o", "U+0302", "U+00F4">>,
     <<"o", "U+0309", "U+1ECF">>,
     <<"o", "U+031B", "U+01A1">>,
     <<"o", "U+0323", "U+1ECD">>,
     <<"u", "U+031B", "U+01B0">>,
     <<"U+00E2", "U+0303", "U+1EAB">>,
     <<"U+00E2", "U+0309", "U+1EA9">>,
     <<"U+00EA", "U+0300", "U+1EC1">>,
     <<"U+00EA", "U+0301", "U+1EBF">>,
     <<"U+00EA", "U+0303", "U+1EC5">>,
     <<"U+00F4", "U+0301", "U+1ED1">>,
     <<"U+0103", "U+0301", "U+1EAF">>,
     <<"U+01A1", "U+0300", "U+1EDD">>,
     <<"U+01A1", "U+0301", "U+1EDB">>,
     <<"U+01A1", "U+0309", "U+1EDF">>,
     <<"U+01A1", "U+0323", "U+1EE3">>,
     <<"U+01B0", "U+0300", "U+1EEB">>,
     <<"U+01B0", "U+0301", "U+1EE9">>,
     <<"U+1EB9", "U+0302", "U+1EC7">>,
     <<"U+1ECD", "U+0302", "U+1ED9">>}

UpperChars == <<"A", "B", "C", "D", "E", "F", "G", "H", "I", "J", "K", "L", "M", "N", "O", "P", "Q", "R", "S", "T", "U", "V", "W", "X", "Y", "Z", "U+00C1", "U+00C2", "U+00C9", "U+00CA", "U+00CC", "U+00D3", "U+0110", "U+01AF", "U+1EA0", "U+1EA2", "U+1EA8", "U+1EAA", "U+1EAE", "U+1EBE", "U+1EC0", "U+1EC4", "U+1EC6", "U+1ECA", "U+1ECC", "U+1ECE", "U+1ED0", "U+1ED8", "U+1EDA", "U+1EDC", "U+1EDE", "U+1EE2", "U+1EE8", "U+1EEA">>
LowerChars == <<"a", "b", "c", "d", "e", "f", "g", "h", "i", "j", "k", "l", "m", "n", "o", "p", "q", "r", "s", "t", "u", "v", "w", "x", "y", "z", "U+00E1", "U+00E2", "U+00E9", "U+00EA", "U+00EC", "U+00F3", "U+0111", "U+01B0", "U+1EA1", "U+1EA3", "U+1EA9", "U+1EAB", "U+1EAF", "U+1EBF", "U+1EC1", "U+1EC5", "U+1EC7", "U+1ECB", "U+1ECD", "U+1ECF", "U+1ED1", "U+1ED9", "U+1EDB", "U+1EDD", "U+1EDF", "U+1EE3", "U+1EE9", "U+1EEB">>

ToLowerChar(c) ==
    IF \E i \in 1..Len(UpperChars) : UpperChars[i] = c
    THEN LowerChars[CHOOSE i \in 1..Len(UpperChars) : UpperChars[i] = c]
    ELSE c

\* String.prototype.toLowerCase
ToLowerCase(s) == [i \in 1..Len(s) |-> ToLowerChar(s[i])]

\* String.prototype.normalize("NFC"): a letter and the combining marks that follow it
\* are composed into one letter
RECURSIVE ComposeInto(_, _)
ComposeInto(out, s) ==
    IF s = <<>> THEN out
    ELSE IF out # <<>> /\ \E t \in ComposeTable : t[1] = out[Len(out)] /\ t[2] = Head(s)
         THEN LET t == CHOOSE u \in ComposeTable : u[1] = out[Len(out)] /\ u[2] = Head(s)
              IN  ComposeInto(SubSeq(out, 1, Len(out) - 1) \o <<t[3]>>, Tail(s))
         ELSE ComposeInto(out \o <<Head(s)>>, Tail(s))

normalize(str) == ToLowerCase(ComposeInto(<<>>, str))

\* the keywords of the classifiers
KW_chan_doan_hinh_anh == <<"c", "h", "U+1EA9", "n", " ", "U+0111", "o", "U+00E1", "n", " ", "h", "U+00EC", "n", "h", " ", "U+1EA3", "n", "h">>
KW_ct_scanner == <<"c", "t", " ", "s", "c", "a", "n", "n", "e", "r">>
KW_cdha == <<"c", "U+0111", "h", "a">>
KW_cat_lop == <<"c", "U+1EAF", "t", " ", "l", "U+1EDB", "p">>
KW_cong_huong_tu == <<"c", "U+1ED9", "n", "g", " ", "h", "U+01B0", "U+1EDF", "n", "g", " ", "t", "U+1EEB">>
KW_dt_ngoai == <<"d", "t", " ", "n", "g", "o", "a", "i">>
KW_duoc == <<"d", "u", "o", "c">>
KW_duoc_vn == <<"d", "U+01B0", "U+1EE3", "c">>
KW_giuong == <<"g", "i", "u", "o", "n", "g">>
KW_giuong_vn == <<"g", "i", "U+01B0", "U+1EDD", "n", "g">>
KW_giai_phau_benh == <<"g", "i", "U+1EA3", "i", " ", "p", "h", "U+1EAB", "u", " ", "b", "U+1EC7", "n", "h">>
KW_huyet_hoc == <<"h", "u", "y", "U+1EBF", "t", " ", "h", "U+1ECD", "c">>
KW_huyet_thanh == <<"h", "u", "y", "U+1EBF", "t", " ", "t", "h", "a", "n", "h">>
KW_kham == <<"k", "h", "U+00E1", "m">>
KW_mien_dich == <<"m", "i", "U+1EC5", "n", " ", "d", "U+1ECB", "c", "h">>
KW_mri == <<"m", "r", "i">>
KW_noi == <<"n", "o", "i">>
KW_noi_vn == <<"n", "U+1ED9", "i">>
KW_sinh_hoa == <<"s", "i", "n", "h", " ", "h", "U+00F3", "a">>
KW_sieu_am == <<"s", "i", "U+00EA", "u", " ", "U+00E2", "m">>
KW_suc_khoe == <<"s", "U+1EE9", "c", " ", "k", "h", "U+1ECF", "e">>
KW_thuoc == <<"t", "h", "u", "o", "c">>
KW_thuoc_vn == <<"t", "h", "u", "U+1ED1", "c">>
KW_vi_sinh == <<"v", "i", " ", "s", "i", "n", "h">>
KW_vac_xin == <<"v", "U+1EAF", "c", " ", "x", "i", "n">>
KW_x_quang == <<"x", "-", "q", "u", "a", "n", "g">>
KW_xn == <<"x", "n">>
KW_xquang == <<"x", "q", "u", "a", "n", "g">>
KW_xet_nghiem == <<"x", "U+00E9", "t", " ", "n", "g", "h", "i", "U+1EC7", "m">>
KW_dieu_tri_ngoai == <<"U+0111", "i", "U+1EC1", "u", " ", "t", "r", "U+1ECB", " ", "n", "g", "o", "U+1EA1", "i">>
KW_chan_doan == <<"c", "h", "U+1EA9", "n", " ", "U+0111", "o", "U+00E1", "n">>
KW_pttt == <<"p", "t", "t", "t">>

(***************************************************************************)
(* calculateKPIs (src/utils.ts)                                            *)
(***************************************************************************)
\* (d.TEN_NHOM || '').trim()
GroupRaw(d) == Trim(OrElse(d.TEN_NHOM, <<>>))

\* the test of the totalMedicineRevenue reduce
KpiIsMedicine(d) ==
    LET groupRaw == GroupRaw(d)
        group == normalize(groupRaw)
    IN  \/ groupRaw = <<"4">>
        \/ groupRaw = <<"5">>
        \/ groupRaw = <<"6">>
        \/ Includes(group, KW_thuoc_vn)
        \/ Includes(group, KW_thuoc)
        \/ Includes(group, KW_duoc_vn)
        \/ Includes(group, KW_duoc)
        \/ Includes(group, KW_huyet_thanh)
        \/ Includes(group, KW_vac_xin)

\* the test of the totalCDHARevenue reduce
KpiIsCDHA(d) ==
    LET groupRaw == GroupRaw(d)
        group == normalize(groupRaw)
    IN  \/ groupRaw = <<"2">>
        \/ groupRaw = <<"3">>
        \/ Includes(group, KW_chan_doan_hinh_anh)
        \/ Includes(group, KW_cdha)
        \/ Includes(group, KW_x_quang)
        \/ Includes(group, KW_xquang)
        \/ Includes(group, KW_sieu_am)
        \/ Includes(group, KW_ct_scanner)
        \/ Includes(group, KW_cat_lop)
        \/ Includes(group, KW_mri)
        \/ Includes(group, KW_cong_huong_tu)

\* the test of the totalLabRevenue reduce
KpiIsLab(d) ==
    LET groupRaw == GroupRaw(d)
        group == normalize(groupRaw)
    IN  \/ groupRaw = <<"1">>
        \/ Includes(group, KW_xet_nghiem)
        \/ Includes(group, KW_xn)
        \/ Includes(group, KW_huyet_hoc)
        \/ Includes(group, KW_sinh_hoa)
        \/ Includes(group, KW_vi_sinh)
        \/ Includes(group, KW_mien_dich)
        \/ Includes(group, KW_giai_phau_benh)

\* the test of the totalBedRevenue reduce
KpiIsBed(d) ==
    LET groupRaw == GroupRaw(d)
        group == normalize(groupRaw)
    IN  \/ groupRaw = <<"1", "4">>
        \/ groupRaw = <<"1", "5">>
        \/ Includes(group, KW_giuong_vn)
        \/ Includes(group, KW_giuong)

\* data.reduce((sum, d) => sum + d.THANH_TIEN, 0)
RECURSIVE SumCost(_)
SumCost(data) ==
    IF data = <<>> THEN Num(0)
    ELSE JsAdd(SumCost(SubSeq(data, 1, Len(data) - 1)), data[Len(data)].THANH_TIEN)

\* new Set(data.map(d => d[field]))
FieldSet(data, field) == {data[i][field] : i \in 1..Len(data)}

\* newTypeRaw: String(d.MA_LOAI_KCB || '').trim()
TypeRaw(d) == Trim(OrElse(d.MA_LOAI_KCB, <<>>))

\* the Inpatient flag of a type text (isNoiTru, currentIsNoiTru)
IsNoiTru(type) ==
    \/ type = <<"0", "3">>
    \/ type = <<"3">>
    \/ Includes(ToLowerCase(type), KW_noi_vn)
    \/ Includes(ToLowerCase(type), KW_noi)

\* the Outpatient-Treatment flag of a type text (isDTNgoaiTru, currentIsDTNgoaiTru)
IsDTNgoaiTru(type) ==
    \/ type = <<"0", "2">>
    \/ type = <<"2">>
    \/ Includes(ToLowerCase(type), KW_dieu_tri_ngoai)
    \/ Includes(ToLowerCase(type), KW_dt_ngoai)

\* map.set(key, value)
MapSet(map, key, value) ==
    [k \in DOMAIN map \cup {key} |-> IF k = key THEN value ELSE map[k]]

\* variant: every row overwrites the type of its visit
NextVisitTypeLastWins(typeMap, d) == TypeRaw(d)

\* the type the visit loop leaves in visitTypeMap for the visit of row d
NextVisitType(typeMap, d) ==
    LET newTypeRaw == TypeRaw(d)
        hasCurrent == d.MA_LK \in DOMAIN typeMap /\ typeMap[d.MA_LK] # <<>>
    IN  IF ~hasCurrent THEN newTypeRaw
        ELSE LET currentType == typeMap[d.MA_LK]
             IN  IF IsNoiTru(newTypeRaw) /\ ~IsNoiTru(currentType) THEN newTypeRaw
                 ELSE IF IsDTNgoaiTru(newTypeRaw) /\ ~IsNoiTru(currentType)
                            /\ ~IsDTNgoaiTru(currentType)
                      THEN newTypeRaw
                      ELSE currentType

\* the bucket the final forEach counts a resolved type in
VisitBucket(type) ==
    LET t == ToLowerCase(Trim(type))
    IN  IF t = <<"0", "3">> \/ t = <<"3">> \/ Includes(t, KW_noi_vn) \/ Includes(t, KW_noi)
        THEN "NoiTru"
        ELSE IF t = <<"0", "2">> \/ t = <<"2">> \/ Includes(t, KW_dieu_tri_ngoai)
                    \/ Includes(t, KW_dt_ngoai)
        THEN "DieuTriNgoaiTru"
        ELSE IF t = <<"0", "1">> \/ t = <<"1">>
                    \/ (Includes(t, KW_kham) /\ ~Includes(t, KW_suc_khoe))
        THEN "KhamBenh"
        ELSE "Khac"

\* one iteration of the visit loop, data.forEach(d => ...)
KpiRow ==
    /\ pc = "kpiLoop"
    /\ idx < Len(filteredData)
    /\ LET d == filteredData[idx + 1]
           cost == IF d.MA_LK \in DOMAIN visitCostMap
                   THEN OrZero(visitCostMap[d.MA_LK]) ELSE Num(0)
           currentDays == IF d.MA_LK \in DOMAIN visitDaysMap
                          THEN OrZero(visitDaysMap[d.MA_LK]) ELSE Num(0)
       IN  /\ visitCostMap' = MapSet(visitCostMap, d.MA_LK, JsAdd(cost, d.THANH_TIEN))
           /\ visitDaysMap' = IF JsGt(d.SO_NGAY_DTRI, currentDays)
                              THEN MapSet(visitDaysMap, d.MA_LK, d.SO_NGAY_DTRI)
                              ELSE visitDaysMap
           /\ visitTypeMap' = MapSet(visitTypeMap, d.MA_LK, NextVisitType(visitTypeMap, d))
    /\ idx' = idx + 1
    /\ UNCHANGED <<uiVars, pc, filteredData, kpiStats, chartData, dateVars, normVars, appVars>>

\* the sum of map[k] || 0 over the keys
RECURSIVE SumValues(_, _)
SumValues(map, keys) ==
    IF keys = {} THEN Num(0)
    ELSE LET k == CHOOSE x \in keys : TRUE
         IN  JsAdd(SumValues(map, keys \ {k}), OrZero(map[k]))

\* the values of a field in the order they first appear (the key order of a Map)
RECURSIVE KeysInOrder(_, _)
KeysInOrder(data, field) ==
    IF data = <<>> THEN <<>>
    ELSE LET before == KeysInOrder(SubSeq(data, 1, Len(data) - 1), field)
             key == data[Len(data)][field]
         IN  IF \E i \in 1..Len(before) : before[i] = key THEN before ELSE before \o <<key>>

\* icdCounts.get(icd).size
IcdVisitCount(data, icd) == Cardinality({data[i].MA_LK : i \in {j \in 1..Len(data) : data[j].MA_BENH = icd}})

\* serviceCost.get(svc) after the loop: (serviceCost.get(svc) || 0) + d.THANH_TIEN per row
RECURSIVE ServiceCost(_, _)
ServiceCost(data, svc) ==
    IF data = <<>> THEN Num(0)
    ELSE LET before == ServiceCost(SubSeq(data, 1, Len(data) - 1), svc)
             d == data[Len(data)]
         IN  IF d.DICH_VU = svc THEN JsAdd(OrZero(before), d.THANH_TIEN) ELSE before

S_NA == <<"N", "/", "A">>

\* the key with the largest count, the first one met winning a tie (strict >)
RECURSIVE TopIcdFrom(_, _, _, _)
TopIcdFrom(data, keys, best, max) ==
    IF keys = <<>> THEN best
    ELSE IF IcdVisitCount(data, Head(keys)) > max
         THEN TopIcdFrom(data, Tail(keys), Head(keys), IcdVisitCount(data, Head(keys)))
         ELSE TopIcdFrom(data, Tail(keys), best, max)

RECURSIVE TopServiceFrom(_, _, _, _)
TopServiceFrom(data, keys, best, max) ==
    IF keys = <<>> THEN best
    ELSE IF JsGt(ServiceCost(data, Head(keys)), max)
         THEN TopServiceFrom(data, Tail(keys), Head(keys), ServiceCost(data, Head(keys)))
         ELSE TopServiceFrom(data, Tail(keys), best, max)

NotUnknown(text) == text # S_Unknown

VisitsIn(typeMap, bucket) == {k \in DOMAIN typeMap : VisitBucket(typeMap[k]) = bucket}

\* the KPIStats assembled from the reduces over data and from the three visit maps
KpiResult(data, daysMap, typeMap, costMap) ==
    LET uniqueVisits == FieldSet(data, "MA_LK")
        totalDays == SumValues(daysMap, DOMAIN daysMap)
    IN  [totalVisits |-> Cardinality(uniqueVisits),
         totalPatients |-> Cardinality(FieldSet(data, "MA_BN")),
         totalCost |-> SumCost(data),
         totalRows |-> Len(data),
         activeDepts |-> Cardinality(FieldSet(data, "KHOA") \ {S_Unknown}),
         activeDoctors |-> Cardinality(FieldSet(data, "BAC_SY") \ {S_Unknown}),
         avgTreatmentDays |-> IF Cardinality(uniqueVisits) > 0
                              THEN [num |-> totalDays, den |-> Cardinality(uniqueVisits)]
                              ELSE [num |-> Num(0), den |-> 1],
         topICD |-> TopIcdFrom(data, KeysInOrder(data, "MA_BENH"), S_NA, 0),
         topService |-> TopServiceFrom(data, KeysInOrder(data, "DICH_VU"), S_NA, Num(0)),
         countKhamBenh |-> Cardinality(VisitsIn(typeMap, "KhamBenh")),
         countDieuTriNgoaiTru |-> Cardinality(VisitsIn(typeMap, "DieuTriNgoaiTru")),
         countNoiTru |-> Cardinality(VisitsIn(typeMap, "NoiTru")),
         countKhac |-> Cardinality(VisitsIn(typeMap, "Khac")),
         revenueKhamBenh |-> SumValues(costMap, VisitsIn(typeMap, "KhamBenh")),
         revenueDieuTriNgoaiTru |-> SumValues(costMap, VisitsIn(typeMap, "DieuTriNgoaiTru")),
         revenueNoiTru |-> SumValues(costMap, VisitsIn(typeMap, "NoiTru")),
         revenueKhac |-> SumValues(costMap, VisitsIn(typeMap, "Khac")),
         totalMedicineRevenue |-> SumCost(SelectSeq(data, KpiIsMedicine)),
         totalCDHARevenue |-> SumCost(SelectSeq(data, KpiIsCDHA)),
         totalLabRevenue |-> SumCost(SelectSeq(data, KpiIsLab)),
         totalBedRevenue |-> SumCost(SelectSeq(data, KpiIsBed))]

\* the end of calculateKPIs: the visit loop is over, the buckets are counted
KpiFinish ==
    /\ pc = "kpiLoop"
    /\ idx = Len(filteredData)
    /\ kpiStats' = KpiResult(filteredData, visitDaysMap, visitTypeMap, visitCostMap)
    /\ pc' = "kpiDone"
    /\ UNCHANGED <<uiVars, filteredData, idx, visitDaysMap, visitTypeMap, visitCostMap, chartData,
                   dateVars, normVars, appVars>>

(***************************************************************************)
(* chartData (src/App.tsx): the revenue-structure rollup                   *)
(***************************************************************************)
ChartCategory(d) ==
    LET groupRaw == Trim(OrElse(d.TEN_NHOM, <<>>))
        group == ToLowerCase(groupRaw)
        isMedicine == \/ groupRaw = <<"4">> \/ groupRaw = <<"5">> \/ groupRaw = <<"6">>
                      \/ Includes(group, KW_thuoc_vn)
                      \/ Includes(group, KW_duoc_vn)
                      \/ Includes(group, KW_vac_xin)
        isCLS == \/ groupRaw = <<"1">> \/ groupRaw = <<"2">> \/ groupRaw = <<"3">>
                 \/ Includes(group, KW_xet_nghiem)
                 \/ Includes(group, KW_chan_doan)
                 \/ Includes(group, KW_sieu_am)
                 \/ Includes(group, KW_x_quang)
                 \/ Includes(group, KW_pttt)
        isBed == \/ groupRaw = <<"1", "4">> \/ groupRaw = <<"1", "5">>
                 \/ Includes(group, KW_giuong_vn)
    IN  IF isMedicine THEN "Medicine"
        ELSE IF isCLS THEN "CLS"
        ELSE IF isBed THEN "Bed"
        ELSE "Other"

ChartIsMedicine(d) == ChartCategory(d) = "Medicine"
ChartIsCLS(d) == ChartCategory(d) = "CLS"
ChartIsBed(d) == ChartCategory(d) = "Bed"
ChartIsOther(d) == ChartCategory(d) = "Other"

PositiveValue(slice) == JsGt(slice.value, Num(0))

\* [{name, value}, ...].filter(i => i.value > 0); the slice names are written in ASCII
RevenueStructurePie(data) ==
    SelectSeq(<<[name |-> "Thuoc", value |-> SumCost(SelectSeq(data, ChartIsMedicine))],
                [name |-> "Can Lam Sang", value |-> SumCost(SelectSeq(data, ChartIsCLS))],
                [name |-> "Tien Giuong", value |-> SumCost(SelectSeq(data, ChartIsBed))],
                [name |-> "Khac", value |-> SumCost(SelectSeq(data, ChartIsOther))]>>,
              PositiveValue)

TopCount == 20      \* .slice(0, 20)

\* Array.prototype.sort((a, b) => b[key] - a[key]): a stable sort, larger values first; a
\* difference that is not positive, NaN included, leaves the two elements in their order
RECURSIVE InsertDesc(_, _, _)
InsertDesc(sorted, x, key) ==
    IF sorted # <<>> /\ JsGt(x[key], sorted[Len(sorted)][key])
    THEN InsertDesc(SubSeq(sorted, 1, Len(sorted) - 1), x, key) \o <<sorted[Len(sorted)]>>
    ELSE sorted \o <<x>>

RECURSIVE SortDesc(_, _)
SortDesc(list, key) ==
    IF list = <<>> THEN <<>>
    ELSE InsertDesc(SortDesc(SubSeq(list, 1, Len(list) - 1), key), list[Len(list)], key)

Slice(list, end) == SubSeq(list, 1, IF Len(list) < end THEN Len(list) ELSE end)

\* icdCostMap.set(d.MA_BENH, (icdCostMap.get(d.MA_BENH) || 0) + d.THANH_TIEN)
RECURSIVE IcdCost(_, _)
IcdCost(data, icd) ==
    IF data = <<>> THEN Num(0)
    ELSE LET before == IcdCost(SubSeq(data, 1, Len(data) - 1), icd)
             d == data[Len(data)]
         IN  IF d.MA_BENH = icd THEN JsAdd(OrZero(before), d.THANH_TIEN) ELSE before

\* entry.cost += d.THANH_TIEN; entry.qty += d.SO_LUONG, from { cost: 0, qty: 0 }
RECURSIVE SvcSum(_, _, _)
SvcSum(data, svc, field) ==
    IF data = <<>> THEN Num(0)
    ELSE LET before == SvcSum(SubSeq(data, 1, Len(data) - 1), svc, field)
             d == data[Len(data)]
         IN  IF d.DICH_VU = svc THEN JsAdd(before, d[field]) ELSE before

\* 5.4 Top ICD (By Visits)
TopICD(data) ==
    LET keys == KeysInOrder(data, "MA_BENH")
        entries == [i \in 1..Len(keys) |->
                       [name |-> keys[i], value |-> Num(IcdVisitCount(data, keys[i])),
                        cost |-> OrZero(IcdCost(data, keys[i]))]]
    IN  Slice(SortDesc(entries, "value"), TopCount)

\* 5.5 Standard Top Services
TopServices(data) ==
    LET keys == KeysInOrder(data, "DICH_VU")
        entries == [i \in 1..Len(keys) |->
                       [name |-> keys[i], value |-> SvcSum(data, keys[i], "THANH_TIEN"),
                        qty |-> SvcSum(data, keys[i], "SO_LUONG")]]
    IN  Slice(SortDesc(entries, "value"), TopCount)

\* date-fns format(date, 'yyyy-MM-dd') and format(date, 'dd/MM')
FormatYMD(date) ==
    Fmt4(getFullYear(date)) \o <<"-">> \o Fmt2(getMonthIndex(date) + 1) \o <<"-">>
        \o Fmt2(getDate(date))
FormatDM(date) == Fmt2(getDate(date)) \o <<"/">> \o Fmt2(getMonthIndex(date) + 1)

\* a.localeCompare(b) for texts of digits and separators: a separator sorts before
\* every digit
CharRank(c) == IF c \in Digits THEN DigitVal(c) + 1 ELSE 0

RECURSIVE localeCompare(_, _)
localeCompare(a, b) ==
    IF a = <<>> /\ b = <<>> THEN 0
    ELSE IF a = <<>> THEN -1
    ELSE IF b = <<>> THEN 1
    ELSE IF CharRank(Head(a)) < CharRank(Head(b)) THEN -1
    ELSE IF CharRank(Head(a)) > CharRank(Head(b)) THEN 1
    ELSE localeCompare(Tail(a), Tail(b))

\* Array.prototype.sort((a, b) => a[0].localeCompare(b[0])): a stable sort, smaller keys first
RECURSIVE InsertByKey(_, _)
InsertByKey(sorted, x) ==
    IF sorted # <<>> /\ localeCompare(x.key, sorted[Len(sorted)].key) < 0
    THEN InsertByKey(SubSeq(sorted, 1, Len(sorted) - 1), x) \o <<sorted[Len(sorted)]>>
    ELSE sorted \o <<x>>

RECURSIVE SortByKey(_)
SortByKey(list) ==
    IF list = <<>> THEN <<>>
    ELSE InsertByKey(SortByKey(SubSeq(list, 1, Len(list) - 1)), list[Len(list)])

\* variant: the rows are keyed by the day and month they are displayed with
SortKeyDayMonth(d) == FormatDM(d.NGAY_THONG_KE)

\* sortKey and displayKey of a row
SortKey(d) == FormatYMD(d.NGAY_THONG_KE)
DisplayKey(d) == FormatDM(d.NGAY_THONG_KE)

\* entry.cost += d.THANH_TIEN, from { cost: 0 }, over the rows of one sortKey
RECURSIVE DateCost(_, _)
DateCost(data, key) ==
    IF data = <<>> THEN Num(0)
    ELSE LET before == DateCost(SubSeq(data, 1, Len(data) - 1), key)
             d == data[Len(data)]
         IN  IF SortKey(d) = key THEN JsAdd(before, d.THANH_TIEN) ELSE before

\* 5.1 By Time: one entry per sortKey in the order of first appearance, sorted by key
ByDate(data) ==
    LET keyed == [i \in 1..Len(data) |-> [key |-> SortKey(data[i])]]
        keys == KeysInOrder(keyed, "key")
        first(k) == data[CHOOSE i \in 1..Len(data) :
                            /\ SortKey(data[i]) = k
                            /\ \A j \in 1..(i - 1) : SortKey(data[j]) # k]
        rowsOf(k) == {i \in 1..Len(data) : SortKey(data[i]) = k}
        entries == [i \in 1..Len(keys) |->
                       [key |-> keys[i], dateStr |-> DisplayKey(first(keys[i])),
                        cost |-> DateCost(data, keys[i]),
                        visits |-> {data[j].MA_LK : j \in rowsOf(keys[i])}]]
        sorted == SortByKey(entries)
    IN  [i \in 1..Len(sorted) |->
            [date |-> sorted[i].dateStr, totalCost |-> sorted[i].cost,
             totalVisits |-> Cardinality(sorted[i].visits)]]

TopDept == 10      \* .slice(0, 10)
PieServices == 6   \* allServicesForPie.slice(0, 6)
PieDoctors == 5    \* allDocs.slice(0, 5)

\* map.set(k, (map.get(k) || 0) + d.THANH_TIEN) over the rows whose field is k
RECURSIVE CostOrZero(_, _, _)
CostOrZero(data, field, k) ==
    IF data = <<>> THEN Num(0)
    ELSE LET before == CostOrZero(SubSeq(data, 1, Len(data) - 1), field, k)
             d == data[Len(data)]
         IN  IF d[field] = k THEN JsAdd(OrZero(before), d.THANH_TIEN) ELSE before

\* entry.cost += d.THANH_TIEN, from { cost: 0 }, over the rows whose field is k
RECURSIVE EntryCost(_, _, _)
EntryCost(data, field, k) ==
    IF data = <<>> THEN Num(0)
    ELSE LET before == EntryCost(SubSeq(data, 1, Len(data) - 1), field, k)
             d == data[Len(data)]
         IN  IF d[field] = k THEN JsAdd(before, d.THANH_TIEN) ELSE before

\* the size of the Set of MA_LK of the rows whose field is k
VisitSetSize(data, field, k) ==
    Cardinality({data[i].MA_LK : i \in {j \in 1..Len(data) : data[j][field] = k}})

\* 5.2 By Dept
ByDept(data) ==
    LET keys == KeysInOrder(data, "KHOA")
        entries == [i \in 1..Len(keys) |->
                       [name |-> keys[i], value |-> CostOrZero(data, "KHOA", keys[i])]]
    IN  Slice(SortDesc(entries, "value"), TopDept)

VisitsByDept(data) ==
    LET keys == KeysInOrder(data, "KHOA")
        entries == [i \in 1..Len(keys) |->
                       [name |-> keys[i], value |-> Num(VisitSetSize(data, "KHOA", keys[i]))]]
    IN  Slice(SortDesc(entries, "value"), TopDept)

\* list.reduce((sum, i) => sum + i[key], 0)
RECURSIVE ReduceSum(_, _)
ReduceSum(list, key) ==
    IF list = <<>> THEN Num(0)
    ELSE JsAdd(ReduceSum(SubSeq(list, 1, Len(list) - 1), key), list[Len(list)][key])

S_Khac == <<"K", "h", "U+00E1", "c">>

\* variant: the pie is cut to its first slices, the rest is not summed into a slice
WithoutOthers(list, top) == SelectSeq(Slice(list, top), PositiveValue)

\* [...list.slice(0, top), { name: 'Khac', value: rest }].filter(d => d.value > 0)
TopAndOthers(list, top) ==
    SelectSeq(Slice(list, top)
                  \o <<[name |-> S_Khac,
                        value |-> ReduceSum(SubSeq(list, top + 1, Len(list)), "value")]>>,
              PositiveValue)

\* 5.5 Special Pie Data: `${name} (${val.group})`, the group of the service's first row
TopServicesPie(data) ==
    LET keys == KeysInOrder(data, "DICH_VU")
        group(k) == data[CHOOSE i \in 1..Len(data) :
                            /\ data[i].DICH_VU = k
                            /\ \A j \in 1..(i - 1) : data[j].DICH_VU # k].TEN_NHOM
        allServicesForPie ==
            SortDesc([i \in 1..Len(keys) |->
                         [name |-> keys[i] \o <<" ", "(">> \o group(keys[i]) \o <<")">>,
                          value |-> EntryCost(data, "DICH_VU", keys[i])]], "value")
    IN  TopAndOthers(allServicesForPie, PieServices)

KnownDoctor(d) == d.BAC_SY # S_Unknown

\* 5.6 Doctors: the rows of 'Unknown' are skipped
AllDocs(data) ==
    LET known == SelectSeq(data, KnownDoctor)
        keys == KeysInOrder(known, "BAC_SY")
    IN  SortDesc([i \in 1..Len(keys) |->
                     [name |-> keys[i], cost |-> EntryCost(known, "BAC_SY", keys[i]),
                      visits |-> VisitSetSize(known, "BAC_SY", keys[i])]], "cost")

DocPieData(data) ==
    LET allDocs == AllDocs(data)
    IN  TopAndOthers([i \in 1..Len(allDocs) |->
                         [name |-> allDocs[i].name, value |-> allDocs[i].cost]], PieDoctors)

\* the chartData memo; the object returned for an empty filtered set has no visitsByDept
ChartResult(data) ==
    IF Len(data) = 0
    THEN [byDate |-> <<>>, byDept |-> <<>>, topICD |-> <<>>, topServices |-> <<>>,
          allDocs |-> <<>>, docPieData |-> <<>>, topServicesPie |-> <<>>,
          revenueStructurePie |-> <<>>]
    ELSE [byDate |-> ByDate(data), byDept |-> ByDept(data),
          visitsByDept |-> VisitsByDept(data), topICD |-> TopICD(data),
          topServices |-> TopServices(data), allDocs |-> AllDocs(data),
          docPieData |-> DocPieData(data),
          topServicesPie |-> TopServicesPie(data),
          revenueStructurePie |-> RevenueStructurePie(data)]

\* the chartData memo of the same render
ChartAggregate ==
    /\ pc = "kpiDone"
    /\ chartData' = ChartResult(filteredData)
    /\ pc' = "rendered"
    /\ UNCHANGED <<uiVars, filteredData, idx, visitDaysMap, visitTypeMap, visitCostMap, kpiStats,
                   dateVars, normVars, appVars>>

(***************************************************************************)
(* Inputs of the KPI and chart aggregators: uploaded rows, normalised by   *)
(* processRawData and shown unfiltered.                                    *)
(***************************************************************************)
L_noi_tru == <<"N", "U+1ED9", "i", " ", "t", "r", "U+00FA">>
L_kham_suc_khoe == <<"k", "h", "U+00E1", "m", " ", "s", "U+1EE9", "c", " ", "k", "h", "U+1ECF", "e">>
L_Thuoc == <<"T", "h", "u", "U+1ED1", "c">>
\* "thuoc xn" with its diacritics, in decomposed form
L_thuoc_xn == <<"t", "h", "u", "o", "U+0302", "U+0301", "c", " ", "x", "n">>
L_Giuong == <<"G", "i", "U+01B0", "U+1EDD", "n", "g">>

VisitCodes == {<<"V", "1">>, <<"V", "2">>}

\* MA_LOAI_KCB: absent, the three codes, a short code, two labels
TypeLabels == {Undefined, <<"0", "1">>, <<"0", "2">>, <<"3">>, L_noi_tru, L_kham_suc_khoe}

\* TEN_NHOM: codes and labels of every category, one label of two categories
GroupLabels == {Undefined, L_Thuoc, KW_thuoc, L_thuoc_xn, <<"1">>, <<"2">>, L_Giuong, KW_pttt}

\* THANH_TIEN: not a number, zero, a fraction, a negative and a positive amount
AmountTexts == {<<"x">>, <<"0">>, <<"1", ".", "5">>, <<"-", "5">>, <<"3", "0">>}

\* the amount of the i-th row when the amounts are not what varies
PositionAmounts == <<<<"1", "0", "0">>, <<"5", "0">>, <<"3", "0">>, <<"7">>>>
AmountAt(i) == PositionAmounts[((i - 1) % Len(PositionAmounts)) + 1]

\* the amount is the one of the row's position
ByPosition == <<"p", "o", "s">>

\* SO_NGAY_DTRI: three day counts and a negative one
DayCounts == {<<"1">>, <<"3">>, <<"5">>, <<"-", "2">>}

\* the five ways the rows of a record set vary: by visit and type, by group, by visit
\* and amount, by visit and day count, by visit, diagnosis with service, and amount
TypeChoices ==
    [MA_LK : VisitCodes, MA_LOAI_KCB : TypeLabels, TEN_NHOM : {<<"4">>}, THANH_TIEN : {ByPosition},
     SO_NGAY_DTRI : {<<"2">>}, key : {1}]
GroupChoices ==
    [MA_LK : {<<"V", "1">>}, MA_LOAI_KCB : {<<"0", "1">>}, TEN_NHOM : GroupLabels,
     THANH_TIEN : {ByPosition}, SO_NGAY_DTRI : {<<"2">>}, key : {1}]
AmountChoices ==
    [MA_LK : VisitCodes, MA_LOAI_KCB : {<<"0", "1">>}, TEN_NHOM : {<<"4">>},
     THANH_TIEN : AmountTexts, SO_NGAY_DTRI : {<<"2">>}, key : {1}]
DaysChoices ==
    [MA_LK : VisitCodes, MA_LOAI_KCB : {<<"0", "1">>}, TEN_NHOM : {<<"4">>},
     THANH_TIEN : {ByPosition}, SO_NGAY_DTRI : DayCounts, key : {1}]
KeyChoices ==
    [MA_LK : VisitCodes, MA_LOAI_KCB : {<<"0", "1">>}, TEN_NHOM : {<<"4">>},
     THANH_TIEN : {<<"0">>, <<"3", "0">>}, SO_NGAY_DTRI : {<<"2">>}, key : {1, 2}]
KpiFamilies == {TypeChoices, GroupChoices, AmountChoices, DaysChoices, KeyChoices}

\* the i-th uploaded row, made of choice c
KpiRowOf(c, i) ==
    [BaseRow EXCEPT !.MA_LK = c.MA_LK, !.MA_LOAI_KCB = c.MA_LOAI_KCB, !.TEN_NHOM = c.TEN_NHOM,
                    !.THANH_TIEN = IF c.THANH_TIEN = ByPosition THEN AmountAt(i)
                                   ELSE c.THANH_TIEN,
                    !.SO_NGAY_DTRI = c.SO_NGAY_DTRI,
                    !.MA_BENH = IF c.key = 1 THEN <<"J", "1", "8">> ELSE <<"I", "1", "0">>,
                    !.DICH_VU = IF c.key = 1 THEN <<"s">> ELSE <<"t">>]

\* the first row of a list is a row of visit V1
FromFirstVisit(f) == IF DOMAIN f = {} THEN TRUE ELSE f[1].MA_LK = <<"V", "1">>

KpiClock == NewDate(2024, 5, 15, 9, 30, 0)

(***************************************************************************)
(* Specification of the aggregators: the records are loaded, calculateKPIs *)
(* runs its visit loop row by row and returns, then chartData is computed. *)
(***************************************************************************)
InitKpi ==
    /\ pc = "kpiLoop"
    /\ rows = <<>>
    /\ now = KpiClock
    /\ \E n \in 0..MaxRecords, family \in KpiFamilies :
           \E f \in [1..n -> family] :
               /\ FromFirstVisit(f)
               /\ rawData = processRawData([i \in 1..n |-> KpiRowOf(f[i], i)], now)
    /\ filteredData = rawData
    /\ idx = 0
    /\ visitDaysMap = <<>>
    /\ visitTypeMap = <<>>
    /\ visitCostMap = <<>>
    /\ kpiStats = Null
    /\ chartData = Null
    /\ DateIdle
    /\ AppIdle
    /\ UiIdle

NextKpi == KpiRow \/ KpiFinish \/ ChartAggregate

SpecKPI == InitKpi /\ [][NextKpi]_vars

(***************************************************************************)
(* Properties of the aggregators.                                          *)
(***************************************************************************)
KpiDone == pc \in {"kpiDone", "rendered"}

\* a === b for numbers
JsEq(a, b) == a # NaN /\ b # NaN /\ a = b

BucketRank(bucket) ==
    CASE bucket = "NoiTru" -> 3
      [] bucket = "DieuTriNgoaiTru" -> 2
      [] bucket = "KhamBenh" -> 1
      [] OTHER -> 0

\* the priority of the type a row carries, and of the type a visit is resolved to
RowRank(d) == BucketRank(VisitBucket(TypeRaw(d)))
TypeRank(typeMap, k) == IF k \in DOMAIN typeMap THEN BucketRank(VisitBucket(typeMap[k])) ELSE 0

RowsOfVisit(data, k) == {i \in 1..Len(data) : data[i].MA_LK = k}
HighestRank(data, k) ==
    CHOOSE r \in 0..3 : /\ \E i \in RowsOfVisit(data, k) : RowRank(data[i]) = r
                        /\ \A i \in RowsOfVisit(data, k) : RowRank(data[i]) <= r
VisitsOfRank(data, r) == {k \in FieldSet(data, "MA_LK") : HighestRank(data, k) = r}

\* the ranks of the rows of visit k, in input order
RankTrail(data, k) ==
    LET mine == SelectSeq([i \in 1..Len(data) |-> i], LAMBDA i : data[i].MA_LK = k)
    IN  [j \in 1..Len(mine) |-> RowRank(data[mine[j]])]

\* C1 as stated: every visit is counted in the bucket of the highest-priority type
\* found among its rows (Inpatient > Outpatient-Treatment > Consultation > Other),
\* whatever the order of the rows.
C1_AsStated ==
    KpiDone =>
        /\ kpiStats.countNoiTru = Cardinality(VisitsOfRank(filteredData, 3))
        /\ kpiStats.countDieuTriNgoaiTru = Cardinality(VisitsOfRank(filteredData, 2))
        /\ kpiStats.countKhamBenh = Cardinality(VisitsOfRank(filteredData, 1))
        /\ kpiStats.countKhac = Cardinality(VisitsOfRank(filteredData, 0))

\* C2 as stated: the four visit-type counts add up to totalVisits, totalCost is the sum
\* of THANH_TIEN over all rows, and the four visit-type revenues add up to totalCost.
C2_AsStated ==
    KpiDone =>
        /\ kpiStats.countKhamBenh + kpiStats.countDieuTriNgoaiTru + kpiStats.countNoiTru
               + kpiStats.countKhac = kpiStats.totalVisits
        /\ kpiStats.totalCost = SumCost(filteredData)
        /\ JsEq(JsAdd(JsAdd(kpiStats.revenueKhamBenh, kpiStats.revenueDieuTriNgoaiTru),
                      JsAdd(kpiStats.revenueNoiTru, kpiStats.revenueKhac)),
                kpiStats.totalCost)

KpiCategories(d) ==
    {c \in {"Medicine", "CDHA", "Lab", "Bed"} :
        \/ c = "Medicine" /\ KpiIsMedicine(d)
        \/ c = "CDHA" /\ KpiIsCDHA(d)
        \/ c = "Lab" /\ KpiIsLab(d)
        \/ c = "Bed" /\ KpiIsBed(d)}
KpiUnmatched(d) == KpiCategories(d) = {}

\* C3 as stated: the amount of every row is added to one category only, so the four
\* category revenues plus the revenue of the unmatched rows add up to totalCost, also
\* for labels that match the predicates of two categories.
C3_AsStated ==
    KpiDone =>
        JsEq(JsAdd(JsAdd(JsAdd(kpiStats.totalMedicineRevenue, kpiStats.totalCDHARevenue),
                         JsAdd(kpiStats.totalLabRevenue, kpiStats.totalBedRevenue)),
                   SumCost(SelectSeq(filteredData, KpiUnmatched))),
             kpiStats.totalCost)

\* the value the rollup shows for a slice: the slice's value, 0 when it has no slice
SliceValue(pie, name) ==
    IF \E i \in 1..Len(pie) : pie[i].name = name
    THEN pie[CHOOSE i \in 1..Len(pie) : pie[i].name = name].value
    ELSE Num(0)

\* C4 as stated: the KPI classifier and the classifier of the revenue-structure rollup
\* agree on every label, so the rollup's medicine value is totalMedicineRevenue, its bed
\* value is totalBedRevenue and its paraclinical value is imaging plus lab revenue.
C4_AsStated ==
    pc = "rendered" =>
        /\ JsEq(SliceValue(chartData.revenueStructurePie, "Thuoc"),
                kpiStats.totalMedicineRevenue)
        /\ JsEq(SliceValue(chartData.revenueStructurePie, "Tien Giuong"),
                kpiStats.totalBedRevenue)
        /\ JsEq(SliceValue(chartData.revenueStructurePie, "Can Lam Sang"),
                JsAdd(kpiStats.totalCDHARevenue, kpiStats.totalLabRevenue))

\* the sum of the values of the slices of a rollup
RECURSIVE SumSlices(_)
SumSlices(pie) ==
    IF pie = <<>> THEN Num(0)
    ELSE JsAdd(SumSlices(SubSeq(pie, 1, Len(pie) - 1)), pie[Len(pie)].value)

\* C22 as stated: the values of the slices of the revenue-structure rollup add up to the
\* KPI totalCost, although the slices whose value is not greater than 0 are removed.
C22_AsStated ==
    pc = "rendered" => JsEq(SumSlices(chartData.revenueStructurePie), kpiStats.totalCost)

\* no amount of the filtered set is NaN or negative
AmountsNonNegative ==
    \A i \in 1..Len(filteredData) :
        filteredData[i].THANH_TIEN # NaN /\ ~JsGt(Num(0), filteredData[i].THANH_TIEN)

C22_OnNonNegativeAmounts == AmountsNonNegative => C22_AsStated

\* the largest SO_NGAY_DTRI among the rows of visit k
MaxDaysOf(data, k) ==
    LET days == {data[i].SO_NGAY_DTRI.mant : i \in RowsOfVisit(data, k)}
    IN  CHOOSE m \in days : \A n \in days : n <= m

RECURSIVE SumMaxDays(_, _)
SumMaxDays(data, visits) ==
    IF visits = {} THEN 0
    ELSE LET k == CHOOSE x \in visits : TRUE
         IN  SumMaxDays(data, visits \ {k}) + MaxDaysOf(data, k)

\* C26 as stated: avgTreatmentDays is the total of the per-visit maxima of SO_NGAY_DTRI
\* divided by the number of distinct MA_LK, and 0 for an empty record set.
C26_AsStated ==
    KpiDone =>
        IF filteredData = <<>>
        THEN kpiStats.avgTreatmentDays.num = Num(0)
        ELSE /\ kpiStats.avgTreatmentDays.den = Cardinality(FieldSet(filteredData, "MA_LK"))
             /\ kpiStats.avgTreatmentDays.num
                    = Num(SumMaxDays(filteredData, FieldSet(filteredData, "MA_LK")))

\* no row has a negative SO_NGAY_DTRI
DaysNonNegative ==
    \A i \in 1..Len(filteredData) : filteredData[i].SO_NGAY_DTRI.mant >= 0

C26_OnNonNegativeDays == DaysNonNegative => C26_AsStated

\* a visit of two rows of 1 and 5 days and a visit of 3 days: 8 days over 2 visits
C26_MaxNotSum ==
    /\ KpiDone /\ Len(filteredData) = 3
    /\ kpiStats.avgTreatmentDays = [num |-> Num(8), den |-> 2]

\* the position of the first row of the filtered set whose field is k
FirstRowOf(field, k) ==
    CHOOSE i \in 1..Len(filteredData) :
        filteredData[i][field] = k /\ \A j \in 1..(i - 1) : filteredData[j][field] # k

\* w is a key of the field with the largest metric, and the first met of those
FirstOfLargest(w, field, Metric(_)) ==
    LET keys == FieldSet(filteredData, field)
    IN  /\ w \in keys
        /\ \A k \in keys : ~JsGt(Metric(k), Metric(w))
        /\ \A k \in keys : Metric(k) = Metric(w) => FirstRowOf(field, w) <= FirstRowOf(field, k)

KpiIcdVisits(k) == Num(IcdVisitCount(filteredData, k))
KpiServiceCost(k) == SumCost(SelectSeq(filteredData, LAMBDA d : d.DICH_VU = k))

\* C27 as stated: for every non-empty record set topICD is a diagnosis code with the
\* largest number of distinct visits and topService a service with the largest total
\* cost, the first met in input order when several have the largest.
C27_AsStated ==
    (KpiDone /\ filteredData # <<>>) =>
        /\ FirstOfLargest(kpiStats.topICD, "MA_BENH", KpiIcdVisits)
        /\ FirstOfLargest(kpiStats.topService, "DICH_VU", KpiServiceCost)

\* some service has a total cost above 0, and no amount is NaN
SomeServicePaid ==
    /\ \A i \in 1..Len(filteredData) : filteredData[i].THANH_TIEN # NaN
    /\ \E k \in FieldSet(filteredData, "DICH_VU") : JsGt(KpiServiceCost(k), Num(0))

C27_OnPaidServices == SomeServicePaid => C27_AsStated

\* two services tie for the largest cost and two diagnosis codes for the most visits
C27_Tie ==
    /\ KpiDone /\ SomeServicePaid
    /\ Cardinality(FieldSet(filteredData, "DICH_VU")) = 2
    /\ \A k \in FieldSet(filteredData, "DICH_VU") : KpiServiceCost(k) = Num(30)
    /\ \A k \in FieldSet(filteredData, "MA_BENH") : KpiIcdVisits(k) = Num(1)
    /\ kpiStats.topService = <<"t">>

\* every amount is 0 and no service is named
C27_NoneNamed ==
    /\ KpiDone /\ filteredData # <<>>
    /\ \A i \in 1..Len(filteredData) : filteredData[i].THANH_TIEN = Num(0)
    /\ kpiStats.topService = S_NA

\* one step of the visit loop lowers the priority of no visit's type
NoDowngradeStep ==
    KpiRow => \A k \in DOMAIN visitTypeMap' :
                  TypeRank(visitTypeMap', k) >= TypeRank(visitTypeMap, k)

\* the loop is over and a visit whose rows carry this trail of ranks exists
Resolved(trail, rank) ==
    (pc = "kpiLoop" /\ idx = Len(filteredData)) =>
        \A k \in DOMAIN visitTypeMap :
            RankTrail(filteredData, k) = trail => TypeRank(visitTypeMap, k) = rank

\* C7: while the visit loop runs, the resolved type of a visit never moves to a lower
\* priority (nothing replaces Inpatient, only Inpatient replaces Outpatient-Treatment);
\* rows tagged [Other, Inpatient, Outpatient-Treatment] resolve to Inpatient and rows
\* tagged [Outpatient-Treatment, Other] resolve to Outpatient-Treatment.
C7_NoDowngrade ==
    /\ [][NoDowngradeStep]_vars
    /\ [](Resolved(<<0, 3, 2>>, 3) /\ Resolved(<<2, 0>>, 2))

\* a visit with rows tagged Other, Inpatient, Outpatient-Treatment went through the loop
\* and is Inpatient
C7_Witness ==
    /\ pc = "kpiLoop" /\ idx = Len(filteredData)
    /\ \E k \in DOMAIN visitTypeMap :
           /\ RankTrail(filteredData, k) = <<0, 3, 2>>
           /\ TypeRank(visitTypeMap, k) = 3
           /\ filteredData[1].MA_LOAI_KCB # <<>>

(***************************************************************************)
(* The filter: the filteredData memo (src/App.tsx)                         *)
(***************************************************************************)
MaxFilterRecords == 2   \* longest generated canonical collection of the filter

\* a <= b for two Dates
TimeLe(a, b) == a.day < b.day \/ (a.day = b.day /\ a.sec <= b.sec)

\* const [y, m, d] = str.split('-').map(Number); new Date(y, m - 1, d)
parseDateInput(str) ==
    LET parts == Split(str, "-")
    IN  NewDate(DigitsToNat(parts[1]), DigitsToNat(parts[2]) - 1, DigitsToNat(parts[3]), 0, 0, 0)

startOfDay(date) == [day |-> date.day, sec |-> 0]

\* date-fns endOfDay: 23:59:59.999 of the day; the Dates of the model carry whole
\* seconds, and 23:59:59.999 bounds the same whole seconds as 23:59:59 does
endOfDay(date) == [day |-> date.day, sec |-> 86399]

\* what a render that threw leaves in place of the list: no record of the program has
\* this shape
Thrown == <<[thrown |-> "RangeError"]>>

\* date-fns isWithinInterval on an interval whose start is after its end: the releases
\* that throw RangeError("Invalid interval") and the releases that sort the two bounds.
\* The release is chosen by a package manifest that is not part of src/.
IntervalBehaviours == {"throws", "sorts"}

isWithinInterval(lib, date, start, end) ==
    IF TimeLe(start, end) THEN TimeLe(start, date) /\ TimeLe(date, end)
    ELSE IF lib = "throws" THEN Thrown
    ELSE TimeLe(end, date) /\ TimeLe(date, start)

\* the callback of rawData.filter: start and end are Null when their criterion is empty
FilterKeeps(lib, item, f, start, end) ==
    /\ (start # Null /\ end # Null) => isWithinInterval(lib, item.NGAY_THONG_KE, start, end)
    /\ ~(f.KHOA # <<>> /\ item.KHOA # f.KHOA)
    /\ ~(f.BAC_SY # <<>> /\ item.BAC_SY # f.BAC_SY)
    /\ ~(f.TEN_NHOM # <<>> /\ item.TEN_NHOM # f.TEN_NHOM)
    /\ ~(f.TEN_DOI_TUONG # <<>> /\ item.TEN_DOI_TUONG # f.TEN_DOI_TUONG)
    /\ ~(f.MA_LOAI_KCB # <<>> /\ item.MA_LOAI_KCB # f.MA_LOAI_KCB)
    /\ ~(f.MA_BENH # <<>> /\ item.MA_BENH # f.MA_BENH)
    /\ ~(f.KET_QUA_DTRI # <<>> /\ item.KET_QUA_DTRI # f.KET_QUA_DTRI)
    /\ ~(f.TINH_TRANG_RV # <<>> /\ item.TINH_TRANG_RV # f.TINH_TRANG_RV)
    /\ ~(f.DICH_VU # <<>> /\ ~Includes(ToLowerCase(item.DICH_VU), ToLowerCase(f.DICH_VU)))

\* variant: the callback is ignored and the first record is dropped
filterWithDroppingFirst(lib, data, f) == IF data = <<>> THEN <<>> ELSE Tail(data)

\* the body of the filteredData memo; the callback runs on every record in turn, so a
\* throwing isWithinInterval ends the memo on the first record
filterWith(lib, data, f) ==
    IF Len(data) = 0 THEN <<>>
    ELSE LET start == IF f.startDate # <<>> THEN startOfDay(parseDateInput(f.startDate)) ELSE Null
             end == IF f.endDate # <<>> THEN endOfDay(parseDateInput(f.endDate)) ELSE Null
         IN  IF start # Null /\ end # Null /\ ~TimeLe(start, end) /\ lib = "throws"
             THEN Thrown
             ELSE SelectSeq(data, LAMBDA item : FilterKeeps(lib, item, f, start, end))

(***************************************************************************)
(* Inputs of the filter: canonical collections and the FilterStates the    *)
(* FilterBar can produce (its two date inputs are not compared with each   *)
(* other, so a startDate after the endDate is one of them).                *)
(***************************************************************************)
FilterRowPool ==
    { [BaseRow EXCEPT !.NGAY_THANH_TOAN = SlashText(10, 1, 2024), !.DICH_VU = <<"X", "n">>],
      [BaseRow EXCEPT !.NGAY_THANH_TOAN = Compact14Text(2024, 1, 20, 23, 59, 59),
                      !.MA_LK = <<"V", "2">>, !.KHOA = <<"K", "2">>, !.BAC_SY = <<"D", "2">>,
                      !.TEN_NHOM = <<"5">>, !.TEN_DOI_TUONG = <<"D", "V">>,
                      !.MA_LOAI_KCB = <<"0", "3">>, !.MA_BENH = <<"I", "1", "0">>,
                      !.KET_QUA_DTRI = <<"2">>, !.TINH_TRANG_RV = <<"2">>],
      [BaseRow EXCEPT !.NGAY_THANH_TOAN = SlashText(15, 1, 2024),
                      !.DICH_VU = <<"a", "x", "N", "b">>],
      [BaseRow EXCEPT !.NGAY_THANH_TOAN = SlashText(21, 1, 2024), !.KHOA = <<"k", "1">>,
                      !.DICH_VU = <<"n", " ", "x">>] }

FilterCollections(max) ==
    UNION {{processRawData(r, KpiClock) : r \in [1..n -> FilterRowPool]} : n \in 0..max}

DateInputValues ==
    {<<>>, Fmt4(2024) \o <<"-">> \o Fmt2(1) \o <<"-">> \o Fmt2(10),
           Fmt4(2024) \o <<"-">> \o Fmt2(1) \o <<"-">> \o Fmt2(20)}

ExactFields ==
    {"KHOA", "BAC_SY", "TEN_NHOM", "TEN_DOI_TUONG", "MA_LOAI_KCB", "MA_BENH", "KET_QUA_DTRI",
     "TINH_TRANG_RV"}

\* a date range, a service text and at most one exact-match choice taken from BaseRow
FilterStates ==
    {[[EmptyFilters EXCEPT !.startDate = s, !.endDate = e, !.DICH_VU = t] EXCEPT ![x] =
          IF x = "DICH_VU" THEN t ELSE BaseRow[x]] :
        s \in DateInputValues, e \in DateInputValues, t \in {<<>>, <<"x", "N">>},
        x \in ExactFields \cup {"DICH_VU"}}

InitFilter ==
    /\ pc = "filter"
    /\ rows = <<>>
    /\ now = KpiClock
    /\ rawData \in FilterCollections(MaxFilterRecords)
    /\ filters \in FilterStates
    /\ alerts = <<>> /\ loading = FALSE /\ error = Null /\ activeTab = "overview"
    /\ headers = <<>>
    /\ DateIdle
    /\ KpiIdle
    /\ UiIdle

\* a render: the filteredData memo is computed from rawData and filters
ApplyFilter ==
    /\ pc = "filter"
    /\ \E lib \in IntervalBehaviours : filteredData' = filterWith(lib, rawData, filters)
    /\ pc' = "filtered"
    /\ UNCHANGED <<uiVars, dateVars, normVars, idx, visitDaysMap, visitTypeMap, visitCostMap, kpiStats,
                   chartData, appVars>>

NextFilter == ApplyFilter

SpecFilter == InitFilter /\ [][NextFilter]_vars

(***************************************************************************)
(* Properties of the filter.                                               *)
(***************************************************************************)
Filtered == pc = "filtered"

\* the constraints of a FilterState as the contract words them
InDateRange(item, f) ==
    (f.startDate # <<>> /\ f.endDate # <<>>) =>
        /\ TimeLe(startOfDay(parseDateInput(f.startDate)), item.NGAY_THONG_KE)
        /\ TimeLe(item.NGAY_THONG_KE, endOfDay(parseDateInput(f.endDate)))

Satisfies(item, f) ==
    /\ InDateRange(item, f)
    /\ \A x \in ExactFields : f[x] # <<>> => item[x] = f[x]
    /\ f.DICH_VU # <<>> => Includes(ToLowerCase(item.DICH_VU), ToLowerCase(f.DICH_VU))

\* C13: the filtered set holds exactly the records of rawData that satisfy every
\* supplied constraint (date within [start of startDate, end of endDate] when both
\* bounds are present, equality on each non-empty exact-match field, case-insensitive
\* substring on a non-empty DICH_VU), in the order of rawData.
C13_AsStated ==
    Filtered => filteredData = SelectSeq(rawData, LAMBDA item : Satisfies(item, filters))

\* the filter applied once more to what it returned; a render that threw has no value
\* to filter
Refilter(lib, data, f) == IF data = Thrown THEN Thrown ELSE filterWith(lib, data, f)

\* C14: filtering the filtered set by the same FilterState returns it unchanged, and
\* the FilterState with every criterion empty returns rawData itself.
C14_Idempotent ==
    Filtered =>
        /\ \E lib \in IntervalBehaviours :
               /\ filteredData = filterWith(lib, rawData, filters)
               /\ Refilter(lib, filteredData, filters) = filteredData
        /\ filters = EmptyFilters => filteredData = rawData

\* a FilterState with a service text and a date range removed one of two records
C14_Witness ==
    /\ Filtered /\ Len(rawData) = 2 /\ filteredData # Thrown /\ Len(filteredData) = 1
    /\ filters.DICH_VU # <<>> /\ filters.startDate # <<>> /\ filters.endDate # <<>>

(***************************************************************************)
(* generateAlerts (src/utils.ts)                                           *)
(***************************************************************************)
GrowthThresholdTenths == 3      \* growth > 0.3
IcdFloor == 10                  \* prevCount > 10
ServiceFloor == 1000000         \* prev > 1000000

\* Date.prototype.setMonth: the day of month and the time are kept, and a day past the
\* end of the target month carries into the next month
SetMonth(date, monthIndex) ==
    LET y == getFullYear(date) + monthIndex \div 12
        m == monthIndex % 12
    IN  [day |-> DaysFromCivil(y, m + 1, 1) + (getDate(date) - 1), sec |-> date.sec]

\* Date.prototype.setDate(0): the last day of the month before the date's month
SetDateZero(date) ==
    [day |-> DaysFromCivil(getFullYear(date), getMonthIndex(date) + 1, 1) - 1, sec |-> date.sec]

\* variant: the day that carried into the next month is kept
subMonthsUnclamped(date, amount) == SetMonth(date, getMonthIndex(date) - amount)

subMonths(date, amount) ==
    LET day == getDate(date)
        d == SetMonth(date, getMonthIndex(date) - amount)
    IN  IF getDate(d) # day THEN SetDateZero(d) ELSE d

\* date-fns isSameMonth: same year and same month
isSameMonth(dateLeft, dateRight) ==
    /\ getFullYear(dateLeft) = getFullYear(dateRight)
    /\ getMonthIndex(dateLeft) = getMonthIndex(dateRight)

\* new Date(Math.max(...currentData.map(d => d.NGAY_THONG_KE.getTime())))
MaxDate(currentData) ==
    LET dates == {currentData[i].NGAY_THONG_KE : i \in 1..Len(currentData)}
    IN  CHOOSE d \in dates : \A e \in dates : TimeLe(e, d)

MonthData(currentData, date) ==
    SelectSeq(currentData, LAMBDA d : isSameMonth(d.NGAY_THONG_KE, date))

\* getDeptCost / getServiceCost: map.set(key, (map.get(key) || 0) + d.THANH_TIEN)
RECURSIVE CostBy(_, _, _)
CostBy(ds, field, key) ==
    IF ds = <<>> THEN Num(0)
    ELSE LET before == CostBy(SubSeq(ds, 1, Len(ds) - 1), field, key)
             d == ds[Len(ds)]
         IN  IF d[field] = key THEN JsAdd(OrZero(before), d.THANH_TIEN) ELSE before

HasKey(ds, field, key) == \E i \in 1..Len(ds) : ds[i][field] = key

\* getICDVisits: the size of the Set of MA_LK of a diagnosis code
VisitCount(ds, icd) == Cardinality({ds[i].MA_LK : i \in {j \in 1..Len(ds) : ds[j].MA_BENH = icd}})

\* variant: a growth of exactly 30% passes
GrowthAtLeast(cost, prev) ==
    /\ cost # NaN /\ prev # NaN
    /\ LET s == Max2(cost.scale, prev.scale)
       IN  10 * (Scaled(cost, s) - Scaled(prev, s)) >= GrowthThresholdTenths * Scaled(prev, s)

\* growth = (cost - prev) / prev; growth > 0.3, for prev > 0.  The quotient is the double
\* nearest to the exact one, and the double 0.3 is the double nearest to 3/10, so for the
\* amounts of the model the test is the exact comparison of (cost - prev) / prev with 3/10.
GrowthExceeds(cost, prev) ==
    /\ cost # NaN /\ prev # NaN
    /\ LET s == Max2(cost.scale, prev.scale)
       IN  10 * (Scaled(cost, s) - Scaled(prev, s)) > GrowthThresholdTenths * Scaled(prev, s)

\* the growth an alert reports, as the pair its quotient is taken of
Growth(cost, prev) == [of |-> JsAdd(cost, [mant |-> 0 - prev.mant, scale |-> prev.scale]), over |-> prev]

\* if (prev && prev > 0): prev is undefined when the department has no previous row
DeptSignificant(prevData, dept) ==
    /\ HasKey(prevData, "KHOA", dept)
    /\ JsGt(CostBy(prevData, "KHOA", dept), Num(0))

\* variant: every diagnosis code of the previous month passes the floor
AnyCount(prevCount) == prevCount > 0

\* if (prevCount && prevCount > 10)
SignificantCount(prevCount) == prevCount # 0 /\ prevCount > IcdFloor

\* if (prev && prev > 1000000)
ServiceSignificant(prevData, svc) ==
    /\ HasKey(prevData, "DICH_VU", svc)
    /\ JsGt(CostBy(prevData, "DICH_VU", svc), Num(ServiceFloor))

\* the message templates; the key of the group is kept beside the template
DeptMessage == "Khoa ${dept} tang chi phi cao"
IcdMessage == "Benh ${icd} tang so luot"
ServiceMessage == "Dich vu tang chi phi bat thuong: ${svc}"
InfoMessage == "Thieu du lieu ky truoc"

AlertItem(type, message, key, growth) ==
    [type |-> type, message |-> message, key |-> key, growth |-> growth]

\* curDeptCost.forEach, over the keys of the current month in insertion order
RECURSIVE DeptAlerts(_, _, _)
DeptAlerts(keys, cur, prev) ==
    IF keys = <<>> THEN <<>>
    ELSE LET dept == Head(keys)
             cost == CostBy(cur, "KHOA", dept)
             before == CostBy(prev, "KHOA", dept)
         IN  (IF DeptSignificant(prev, dept) /\ GrowthExceeds(cost, before)
              THEN <<AlertItem("danger", DeptMessage, dept, Growth(cost, before))>>
              ELSE <<>>) \o DeptAlerts(Tail(keys), cur, prev)

\* curICD.forEach
RECURSIVE IcdAlerts(_, _, _)
IcdAlerts(keys, cur, prev) ==
    IF keys = <<>> THEN <<>>
    ELSE LET icd == Head(keys)
             count == VisitCount(cur, icd)
             prevCount == VisitCount(prev, icd)
         IN  (IF SignificantCount(prevCount) /\ GrowthExceeds(Num(count), Num(prevCount))
              THEN <<AlertItem("warning", IcdMessage, icd,
                               Growth(Num(count), Num(prevCount)))>>
              ELSE <<>>) \o IcdAlerts(Tail(keys), cur, prev)

\* curSvcCost.forEach
RECURSIVE ServiceAlerts(_, _, _)
ServiceAlerts(keys, cur, prev) ==
    IF keys = <<>> THEN <<>>
    ELSE LET svc == Head(keys)
             cost == CostBy(cur, "DICH_VU", svc)
             before == CostBy(prev, "DICH_VU", svc)
         IN  (IF ServiceSignificant(prev, svc) /\ GrowthExceeds(cost, before)
              THEN <<AlertItem("danger", ServiceMessage, svc,
                               Growth(cost, before))>>
              ELSE <<>>) \o ServiceAlerts(Tail(keys), cur, prev)

InfoAlert == AlertItem("info", InfoMessage, <<>>, Null)

GrowthAlerts(cur, prev) ==
    DeptAlerts(KeysInOrder(cur, "KHOA"), cur, prev)
        \o IcdAlerts(KeysInOrder(cur, "MA_BENH"), cur, prev)
        \o ServiceAlerts(KeysInOrder(cur, "DICH_VU"), cur, prev)

\* variant: the growth rules run although the previous month has no record
generateAlertsUnguarded(currentData) ==
    IF Len(currentData) = 0 THEN <<>>
    ELSE LET maxDate == MaxDate(currentData)
         IN  GrowthAlerts(MonthData(currentData, maxDate),
                          MonthData(currentData, subMonths(maxDate, 1)))

generateAlerts(currentData) ==
    IF Len(currentData) = 0 THEN <<>>
    ELSE LET maxDate == MaxDate(currentData)
             prevMonthDate == subMonths(maxDate, 1)
             currentMonthData == MonthData(currentData, maxDate)
             prevMonthData == MonthData(currentData, prevMonthDate)
         IN  IF Len(prevMonthData) = 0 THEN <<InfoAlert>>
             ELSE GrowthAlerts(currentMonthData, prevMonthData)

(***************************************************************************)
(* Inputs of generateAlerts: three families of filtered sets.              *)
(***************************************************************************)
MaxAlertRows == 2   \* most rows that follow the first row of a generated set

AlertRow(d, m, y, lk, dept, svc, amount) ==
    [BaseRow EXCEPT !.NGAY_THANH_TOAN = SlashText(d, m, y), !.MA_LK = lk, !.KHOA = dept,
                    !.DICH_VU = svc, !.THANH_TIEN = amount]

\* thresholds: a January row of department K1 and service s, then rows of January or
\* February 2024 of K1/s or K2/t
FirstAmounts == {<<"0">>, FmtNat(ServiceFloor), FmtNat(ServiceFloor + 1)}
ThresholdChoices ==
    [month : {1, 2}, key : {1, 2},
     amount : {FmtNat(1300000), FmtNat(1300001), <<"1">>}]
ThresholdRow(c) ==
    AlertRow(10, c.month, 2024, <<"V", "1">>, <<"K", Chars(c.key)[1]>>,
             IF c.key = 1 THEN <<"s">> ELSE <<"t">>, c.amount)
ThresholdSets(max) ==
    UNION {{<<AlertRow(15, 1, 2024, <<"V", "1">>, <<"K", "1">>, <<"s">>, a)>>
                \o [i \in 1..n |-> ThresholdRow(f[i])] :
            a \in FirstAmounts, f \in [1..n -> ThresholdChoices]} : n \in 0..max}

\* visit counts: prevN visits of January and curN visits of February 2024 with one
\* diagnosis code, and a second row of the first February visit when dup is set
VisitScenarios == [prevN : {IcdFloor, IcdFloor + 1, 20}, curN : {14, 15, 26, 27}, dup : BOOLEAN]
VisitRows(c) ==
    [i \in 1..c.prevN |-> AlertRow(15, 1, 2024, <<"V">> \o FmtNat(i), <<"K", "1">>, <<"s">>,
                                   FmtNat(100000))]
        \o [i \in 1..c.curN |-> AlertRow(10, 2, 2024, <<"W">> \o FmtNat(i), <<"K", "1">>,
                                         <<"s">>, FmtNat(100000))]
        \o (IF c.dup
            THEN <<AlertRow(11, 2, 2024, <<"W", "1">>, <<"K", "1">>, <<"s">>, FmtNat(100000))>>
            ELSE <<>>)
VisitSets == {VisitRows(c) : c \in VisitScenarios}

\* calendar: rows of the last days of months around the end of February and a new year
CalendarDays ==
    {<<31, 3, 2024>>, <<30, 3, 2024>>, <<29, 3, 2023>>, <<29, 2, 2024>>, <<28, 2, 2023>>,
     <<31, 1, 2024>>, <<31, 12, 2023>>}
CalendarSets(max) ==
    UNION {{[i \in 1..n |-> AlertRow(f[i][1], f[i][2], f[i][3], <<"V", "1">>, <<"K", "1">>,
                                     <<"s">>, FmtNat(100 * i))] :
            f \in [1..n -> CalendarDays]} : n \in 1..(max + 1)}

AlertInputs(max) == ThresholdSets(max) \cup VisitSets \cup CalendarSets(max)

InitAlerts ==
    /\ pc = "alerts"
    /\ rows = <<>>
    /\ now = KpiClock
    /\ \E raw \in AlertInputs(MaxAlertRows) : rawData = processRawData(raw, now)
    /\ filteredData = rawData
    /\ idx = 0
    /\ visitDaysMap = <<>> /\ visitTypeMap = <<>> /\ visitCostMap = <<>>
    /\ kpiStats = Null /\ chartData = Null
    /\ DateIdle
    /\ AppIdle
    /\ UiIdle

\* a render: the alerts memo is computed from filteredData
GenerateAlerts ==
    /\ pc = "alerts"
    /\ alerts' = generateAlerts(filteredData)
    /\ pc' = "alerted"
    /\ UNCHANGED <<uiVars, dateVars, normVars, kpiVars, filters, loading, error, activeTab, headers>>

NextAlerts == GenerateAlerts

SpecAlerts == InitAlerts /\ [][NextAlerts]_vars

(***************************************************************************)
(* Properties of generateAlerts.                                           *)
(***************************************************************************)
Alerted == pc = "alerted"

\* calendar months counted from year 0
MonthIndex(date) == 12 * getFullYear(date) + getMonthIndex(date)
LatestMonth(data) ==
    CHOOSE k \in {MonthIndex(data[i].NGAY_THONG_KE) : i \in 1..Len(data)} :
        \A i \in 1..Len(data) : MonthIndex(data[i].NGAY_THONG_KE) <= k
RowsOfMonth(data, k) == SelectSeq(data, LAMBDA d : MonthIndex(d.NGAY_THONG_KE) = k)
CurrentRows == RowsOfMonth(filteredData, LatestMonth(filteredData))
PreviousRows == RowsOfMonth(filteredData, LatestMonth(filteredData) - 1)

\* the total of a group in a list of records, for amounts that are whole numbers
RECURSIVE Total(_, _, _)
Total(ds, field, key) ==
    IF ds = <<>> THEN 0
    ELSE (IF Head(ds)[field] = key THEN Head(ds).THANH_TIEN.mant ELSE 0)
             + Total(Tail(ds), field, key)
WholeAmounts == \A i \in 1..Len(filteredData) :
    filteredData[i].THANH_TIEN # NaN /\ filteredData[i].THANH_TIEN.scale = 0

AlertsOf(message, key) ==
    {i \in 1..Len(alerts) : alerts[i].message = message /\ alerts[i].key = key}
Keys(ds, field) == {ds[i][field] : i \in 1..Len(ds)}
GrewOver30(cur, prev) == 10 * (cur - prev) > 3 * prev

Visits(ds, icd) == Cardinality({d.MA_LK : d \in {ds[i] : i \in {j \in 1..Len(ds) : ds[j].MA_BENH = icd}}})

OneIf(rule, message, key, type) ==
    /\ Cardinality(AlertsOf(message, key)) = (IF rule THEN 1 ELSE 0)
    /\ \A i \in AlertsOf(message, key) : alerts[i].type = type

\* every alert is an alert of a group of the current month
OnlyGroupAlerts ==
    \A i \in 1..Len(alerts) :
        \/ alerts[i].message = DeptMessage /\ alerts[i].key \in Keys(CurrentRows, "KHOA")
        \/ alerts[i].message = IcdMessage /\ alerts[i].key \in Keys(CurrentRows, "MA_BENH")
        \/ alerts[i].message = ServiceMessage /\ alerts[i].key \in Keys(CurrentRows, "DICH_VU")

DiagnosisRule(icd) ==
    /\ Visits(PreviousRows, icd) > 10
    /\ GrewOver30(Visits(CurrentRows, icd), Visits(PreviousRows, icd))
ServiceRule(svc) ==
    /\ Total(PreviousRows, "DICH_VU", svc) > 1000000
    /\ GrewOver30(Total(CurrentRows, "DICH_VU", svc), Total(PreviousRows, "DICH_VU", svc))
DiagnosisAndServiceAlerts ==
    /\ \A icd \in Keys(CurrentRows, "MA_BENH") :
           OneIf(DiagnosisRule(icd), IcdMessage, icd, "warning")
    /\ \A svc \in Keys(CurrentRows, "DICH_VU") :
           OneIf(ServiceRule(svc), ServiceMessage, svc, "danger")
    /\ OnlyGroupAlerts

ComparesMonths == Alerted /\ filteredData # <<>> /\ PreviousRows # <<>> /\ WholeAmounts

ComparedMonth == MonthIndex(subMonths(MaxDate(filteredData), 1))

Tabs == {"overview", "dept", "icd", "service"}

\* what the JSX of a tab does to the arrays of chartData: Array.prototype.sort sorts
\* the array it is called on, and useMemo hands the same arrays to every render
RenderTab(charts, tab) ==
    IF tab \in {"dept", "service"}
    THEN [charts EXCEPT !.topServices = SortDesc(charts.topServices, "qty")]
    ELSE IF tab = "icd"
    THEN [charts EXCEPT !.topICD = SortDesc(charts.topICD, "cost")]
    ELSE charts

\* rows of two visits, two diagnosis codes with their service, two quantities
RenderChoices == [MA_LK : VisitCodes, key : {1, 2}, SO_LUONG : {<<"1">>, <<"5">>}]
RenderRowOf(c, i) ==
    [BaseRow EXCEPT !.MA_LK = c.MA_LK, !.SO_LUONG = c.SO_LUONG, !.THANH_TIEN = AmountAt(i),
                    !.MA_BENH = IF c.key = 1 THEN <<"J", "1", "8">> ELSE <<"I", "1", "0">>,
                    !.DICH_VU = IF c.key = 1 THEN <<"s">> ELSE <<"t">>]

\* the dashboard after its first render of a loaded file, on the overview tab
InitRender ==
    /\ pc = "rendered"
    /\ rows = <<>>
    /\ now = KpiClock
    /\ \E n \in 0..MaxRecords :
           \E f \in [1..n -> RenderChoices] :
               rawData = processRawData([i \in 1..n |-> RenderRowOf(f[i], i)], now)
    /\ filteredData = rawData
    /\ idx = 0
    /\ visitDaysMap = <<>> /\ visitTypeMap = <<>> /\ visitCostMap = <<>>
    /\ kpiStats = Null
    /\ chartData = RenderTab(ChartResult(filteredData), "overview")
    /\ DateIdle
    /\ AppIdle
    /\ UiIdle

\* onClick={() => setActiveTab(tab.id)} and the render that follows
SwitchTab(tab) ==
    /\ pc = "rendered"
    /\ activeTab' = tab
    /\ chartData' = RenderTab(chartData, tab)
    /\ UNCHANGED <<uiVars, pc, dateVars, normVars, filteredData, idx, visitDaysMap, visitTypeMap,
                   visitCostMap, kpiStats, filters, alerts, loading, error, headers>>

NextRender == \E tab \in Tabs : SwitchTab(tab)

SpecRender == InitRender /\ [][NextRender]_vars

(***************************************************************************)
(* Properties of the rendered rollups.                                     *)
(***************************************************************************)
Descending(list, key) ==
    \A i \in 1..(Len(list) - 1) : ~JsGt(list[i + 1][key], list[i][key])

\* C19: whatever tabs were shown, topICD is ordered by descending visit count and
\* topServices by descending cost, as the chartData memo computed them.
C19_AsStated ==
    (pc = "rendered" /\ chartData # Null) =>
        /\ Descending(chartData.topICD, "value")
        /\ Descending(chartData.topServices, "value")
        /\ chartData = ChartResult(filteredData)

(***************************************************************************)
(* Loading a file (src/App.tsx): handleFileUpload / handleSheetFetch start *)
(* a parse, and Papa.parse calls handleParseComplete or its error callback.*)
(***************************************************************************)
MaxUploadRows == 2  \* longest generated list of parsed rows

requiredCols == <<"MA_LK", "MA_BN", "THANH_TIEN", "KHOA">>

\* Array.prototype.includes on an array of strings
IncludesItem(list, item) == \E i \in 1..Len(list) : list[i] = item

\* variant: only the first missing column is reported
MissingColumnsFirstOnly(hdrs) ==
    LET missing == SelectSeq(requiredCols, LAMBDA c : ~IncludesItem(hdrs, c))
    IN  IF missing = <<>> THEN <<>> ELSE <<Head(missing)>>

\* requiredCols.filter(c => !headers.includes(c))
MissingColumns(hdrs) == SelectSeq(requiredCols, LAMBDA c : ~IncludesItem(hdrs, c))

\* Array.prototype.join(sep), kept as the list of its pieces
RECURSIVE Join(_, _)
Join(list, sep) ==
    IF Len(list) <= 1 THEN list ELSE <<Head(list), sep>> \o Join(Tail(list), sep)

\* the error texts; the text that follows a template is kept beside it
ErrorText(message, detail) == [message |-> message, detail |-> detail]
MissingColumnsError(missing) ==
    ErrorText("Du lieu thieu cac cot bat buoc: ${missing.join(', ')}", Join(missing, ", "))
NoValidDataError == ErrorText("File khong co du lieu hop le.", <<>>)
ReadError == ErrorText("Loi doc file: ${err.message}", <<>>)

\* new Date(Math.min(...dates))
MinDate(data) ==
    LET dates == {data[i].NGAY_THONG_KE : i \in 1..Len(data)}
    IN  CHOOSE d \in dates : \A e \in dates : TimeLe(d, e)

\* the columns of an uploaded file, in file order
AllColumns ==
    <<"TEN_DOI_TUONG", "MA_LK", "MA_BN", "NGAY_VAO_VIEN", "NGAY_VAO_KHOA", "NGAY_RA_VIEN",
      "NGAY_THANH_TOAN", "SO_NGAY_DTRI", "KET_QUA_DTRI", "MA_BENH", "CHAN_DOAN", "BAC_SY",
      "KHOA", "TEN_NHOM", "DICH_VU", "SO_LUONG", "THANH_TIEN", "MA_LOAI_KCB", "TINH_TRANG_RV">>

\* header rows: any of the four required columns and the payment date may be absent,
\* and MA_LK may be spelled in lower case
HeaderLists ==
    {SelectSeq(AllColumns, LAMBDA c : c \notin absent) :
        absent \in SUBSET {"MA_LK", "MA_BN", "THANH_TIEN", "KHOA"}}
    \cup {SelectSeq(AllColumns, LAMBDA c : c # "NGAY_THANH_TOAN"),
          [i \in 1..Len(AllColumns) |-> IF AllColumns[i] = "MA_LK" THEN "ma_lk" ELSE AllColumns[i]]}

\* a parsed row has the columns of the header row and no other
RowUnder(hdrs, row) ==
    [c \in DOMAIN row |-> IF IncludesItem(hdrs, c) THEN row[c] ELSE Undefined]
UploadRows ==
    {BaseRow, [BaseRow EXCEPT !.MA_LK = <<"V", "2">>, !.NGAY_THANH_TOAN = SlashText(20, 3, 2024),
                              !.NGAY_RA_VIEN = SlashText(5, 2, 2024)]}
ParseResults(max) ==
    UNION {{[fields |-> h, data |-> [i \in 1..n |-> RowUnder(h, r[i])]] :
            h \in HeaderLists, r \in [1..n -> UploadRows]} : n \in 0..max}

InitLoad ==
    /\ pc = "idle"
    /\ rows = <<>>
    /\ now = KpiClock
    /\ rawData = <<>>
    /\ DateIdle
    /\ KpiIdle
    /\ AppIdle
    /\ UiIdle

\* the number of arguments one call accepts before the engine raises a RangeError
\* (Math.min(...dates)); engines put it between 10^4 and 10^6 arguments, here it is
\* scaled to the payload sizes of the model
SpreadLimit == 1

SpreadThrows(list) == Len(list) > SpreadLimit

ProcessingError == ErrorText("Loi xu ly du lieu. Vui long kiem tra format file.", <<>>)
InvalidUrlError == ErrorText("Duong dan khong hop le.", <<>>)
TransportError == ErrorText("err.message || Loi ket noi den Google Sheet.", <<>>)

\* the upload screen, with the file input and the sheet button, is rendered only
\* while rawData is empty, and its controls are inert while loading
UploadScreen == pc = "idle" /\ Len(rawData) = 0 /\ loading = FALSE

\* Papa.parse is started and will call complete (pc "parsing") or error (pc "failing")
StartParse ==
    /\ \E result \in ParseResults(MaxUploadRows) : headers' = result.fields /\ rows' = result.data
    /\ pc' \in {"parsing", "failing"}

\* handleFileUpload with a file
StartUpload ==
    /\ UploadScreen
    /\ loading' = TRUE
    /\ error' = Null
    /\ StartParse
    /\ UNCHANGED <<uiVars, now, rawData, dateVars, kpiVars, filters, alerts, activeTab>>

\* handleSheetFetch up to its first await: a URL without /d/<id> is refused in the
\* handler, any other starts the fetch (pc "fetching")
StartFetch ==
    /\ UploadScreen
    /\ \E matches \in BOOLEAN :
          IF matches
          THEN loading' = TRUE /\ error' = Null /\ pc' = "fetching"
          ELSE loading' = FALSE /\ error' = InvalidUrlError /\ pc' = "idle"
    /\ UNCHANGED <<uiVars, now, rows, headers, rawData, dateVars, kpiVars, filters, alerts, activeTab>>

\* handleSheetFetch after the fetch: a rejected fetch or a response that is not ok
\* ends in the catch block, an ok response is handed to Papa.parse
FetchDone ==
    /\ pc = "fetching"
    /\ \E ok \in BOOLEAN :
          IF ok
          THEN StartParse /\ UNCHANGED <<loading, error>>
          ELSE /\ error' = TransportError /\ loading' = FALSE /\ pc' = "idle"
               /\ UNCHANGED <<rows, headers>>
    /\ UNCHANGED <<uiVars, now, rawData, dateVars, kpiVars, filters, alerts, activeTab>>

\* the error callback of Papa.parse
ParseError ==
    /\ pc = "failing"
    /\ error' = ReadError
    /\ loading' = FALSE
    /\ pc' = "idle"
    /\ rows' = <<>> /\ headers' = <<>>
    /\ UNCHANGED <<uiVars, now, rawData, dateVars, kpiVars, filters, alerts, activeTab>>

\* the body of handleParseComplete once missing and processed are known, and the
\* filteredData memo of the render that follows; an exception raised after
\* setRawData leaves the queued collection in place and runs the catch block
HandleParsed(missing, processed) ==
    IF Len(missing) > 0
    THEN /\ error' = MissingColumnsError(missing)
         /\ UNCHANGED <<rawData, filters, filteredData>>
    ELSE IF Len(processed) = 0
    THEN /\ error' = NoValidDataError
         /\ UNCHANGED <<rawData, filters, filteredData>>
    ELSE IF SpreadThrows(processed)
    THEN /\ rawData' = processed
         /\ error' = ProcessingError
         /\ \E lib \in IntervalBehaviours : filteredData' = filterWith(lib, rawData', filters)
         /\ UNCHANGED filters
    ELSE /\ rawData' = processed
         /\ filters' = [filters EXCEPT !.startDate = FormatYMD(MinDate(processed)),
                                       !.endDate = FormatYMD(MaxDate(processed))]
         /\ \E lib \in IntervalBehaviours : filteredData' = filterWith(lib, rawData', filters')
         /\ UNCHANGED error

\* handleParseComplete; the parse result is gone when the handler returns
ParseComplete ==
    /\ pc = "parsing"
    /\ pc' = "idle"
    /\ loading' = FALSE
    /\ HandleParsed(MissingColumns(headers), processRawData(rows, now))
    /\ rows' = <<>> /\ headers' = <<>>
    /\ UNCHANGED <<uiVars, now, dateVars, idx, visitDaysMap, visitTypeMap, visitCostMap, kpiStats,
                   chartData, alerts, activeTab>>

NextLoad == StartUpload \/ StartFetch \/ FetchDone \/ ParseError \/ ParseComplete

SpecLoad == InitLoad /\ [][NextLoad]_vars

(***************************************************************************)
(* Properties of loading.                                                  *)
(***************************************************************************)
RequiredNames == {"MA_LK", "MA_BN", "THANH_TIEN", "KHOA"}
MissingNames == RequiredNames \ {headers[i] : i \in 1..Len(headers)}

\* the names an error text enumerates, and how many it enumerates
NamesIn(detail) == {detail[i] : i \in 1..Len(detail)} \ {", "}
NameCount(detail) == Cardinality({i \in 1..Len(detail) : detail[i] # ", "})

\* handleParseComplete ran on a header row without one of the required columns
RejectedStep == pc = "parsing" /\ pc' = "idle" /\ MissingNames # {}

\* C20: a parse result whose header row lacks a required column is rejected: the error
\* names exactly the missing columns, loading is false, and rawData, the FilterState and
\* the filtered set are what they were.
C20_Rejected ==
    [][RejectedStep =>
          /\ error' # Null
          /\ NamesIn(error'.detail) = MissingNames
          /\ NameCount(error'.detail) = Cardinality(MissingNames)
          /\ loading' = FALSE
          /\ rawData' = rawData /\ filters' = filters /\ filteredData' = filteredData]_vars

\* a file without MA_BN and KHOA was rejected on the upload screen
C20_Witness ==
    /\ pc = "idle" /\ loading = FALSE
    /\ error = MissingColumnsError(<<"MA_BN", "KHOA">>)
    /\ rawData = <<>> /\ filters = EmptyFilters /\ filteredData = <<>>

\* a step that ends a load attempt: a handler or callback returns to the idle screen
AttemptEnds == pc' = "idle"

\* the new collection is the normalization of all rows of the payload, error cleared
LoadedWhole == rawData' = processRawData(rows, now) /\ error' = Null

\* the collection is the one that existed before, and an error is shown
KeptWithError == rawData' = rawData /\ error' # Null

\* C21: every load attempt is all-or-nothing: when it ends, the collection is either the
\* normalization of all rows of the new payload with the error cleared, or the collection
\* that existed before with an error shown, and loading is false.
C21_AsStated ==
    [][AttemptEnds => (loading' = FALSE /\ (LoadedWhole \/ KeptWithError))]_vars

\* while an attempt is under way the collection is the one from before it, and loading
\* is false whenever no attempt is under way
C21_NoPartialWhileLoading ==
    /\ (pc \in {"fetching", "parsing", "failing"} => (rawData = <<>> /\ loading = TRUE))
    /\ (pc = "idle" => loading = FALSE)

\* a payload was installed although the attempt ended in the catch block
C21_InstalledWithError ==
    pc = "idle" /\ Len(rawData) > 0 /\ error = ProcessingError /\ filters = EmptyFilters

(***************************************************************************)
(* exportCSV (src/App.tsx)                                                 *)
(***************************************************************************)
\* String(n) of a number
NumText(n) ==
    IF n = NaN THEN <<"N", "a", "N">>
    ELSE LET abs == IF n.mant < 0 THEN 0 - n.mant ELSE n.mant
             whole == FmtNat(abs \div Pow10(n.scale))
             frac == abs % Pow10(n.scale)
             fracText == [i \in 1..n.scale |-> DigitChars[((frac \div Pow10(n.scale - i)) % 10) + 1]]
         IN  (IF n.mant < 0 THEN <<"-">> ELSE <<>>) \o whole
                 \o (IF n.scale > 0 THEN <<".">> \o fracText ELSE <<>>)

\* Object.keys of the objects of a rollup, in the order the object literal names them
RollupKeys(name) ==
    CASE name = "byDept" -> <<"name", "value">>
      [] name = "topICD" -> <<"name", "value", "cost">>
      [] name = "topServices" -> <<"name", "value", "qty">>
      [] name = "allDocs" -> <<"name", "cost", "visits">>

\* `${v}` of the value an object has under a key
ValueText(obj, key) ==
    IF key = "name" THEN obj[key]
    ELSE IF key = "visits" THEN FmtNat(obj[key])
    ELSE NumText(obj[key])

\* list.join(sep) of texts
RECURSIVE JoinText(_, _)
JoinText(list, sep) ==
    IF list = <<>> THEN <<>>
    ELSE IF Len(list) = 1 THEN list[1]
    ELSE list[1] \o sep \o JoinText(Tail(list), sep)

KeyText(key) ==
    CASE key = "name" -> <<"n", "a", "m", "e">>
      [] key = "value" -> <<"v", "a", "l", "u", "e">>
      [] key = "cost" -> <<"c", "o", "s", "t">>
      [] key = "qty" -> <<"q", "t", "y">>
      [] key = "visits" -> <<"v", "i", "s", "i", "t", "s">>

TypeError == <<[thrown |-> "TypeError"]>>

\* variant: an empty data set is exported as a header line of no keys and no rows
exportCSVGuarded(dataSet, keys) ==
    LET rowText(obj) == JoinText([i \in 1..Len(keys) |->
                                     <<"\"">> \o ValueText(obj, keys[i]) \o <<"\"">>], <<",">>)
    IN  IF dataSet = <<>> THEN <<"\n">>
        ELSE JoinText([i \in 1..Len(keys) |-> KeyText(keys[i])], <<",">>) \o <<"\n">>
                 \o JoinText([i \in 1..Len(dataSet) |-> rowText(dataSet[i])], <<"\n">>)

\* the csv text of exportCSV; Object.keys(dataSet[0]) raises a TypeError when dataSet is
\* empty, and keys stands for Object.keys(dataSet[0]) otherwise
exportCSV(dataSet, keys) ==
    LET rowText(obj) == JoinText([i \in 1..Len(keys) |->
                                     <<"\"">> \o ValueText(obj, keys[i]) \o <<"\"">>], <<",">>)
    IN  IF dataSet = <<>> THEN TypeError
        ELSE JoinText([i \in 1..Len(keys) |-> KeyText(keys[i])], <<",">>) \o <<"\n">>
                 \o JoinText([i \in 1..Len(dataSet) |-> rowText(dataSet[i])], <<"\n">>)

ExportedRollups == {"byDept", "topICD", "topServices", "allDocs"}

\* onExport of one of the tables of the dashboard
ExportCSV(name) ==
    /\ pc = "rendered"
    /\ exported' = [name |-> name, csv |-> exportCSV(chartData[name], RollupKeys(name))]
    /\ UNCHANGED <<pc, dateVars, normVars, kpiVars, appVars, selectedICDs, page, searchTerm,
                   tableData>>

(***************************************************************************)
(* Inputs of the chart rollups: record sets of many groups, and record     *)
(* sets of few rows on days around the turn of a month and of a year.      *)
(***************************************************************************)
MaxChartGroups == 21    \* most departments, diagnoses, services and doctors of a set
MaxDateRows == 3        \* longest record set whose days vary

ChartSizes == {0, 1, 2, 3, 7, 11, MaxChartGroups}
CostPatterns == {"ascending", "descending", "tie", "mixed"}

\* the amount of the row of group i in a set of g groups
PatternAmount(pattern, i, g) ==
    CASE pattern = "ascending" -> 10 * i
      [] pattern = "descending" -> 10 * (g + 1 - i)
      [] pattern = "tie" -> 50
      [] pattern = "mixed" -> 10 * (((i * 7) % 5) + 1)

\* further rows of one group: none, amounts that parse, one that does not, a negative one
ExtraPlans == {<<>>, <<<<"4", "0">>>>, <<<<"0">>>>, <<<<"x">>>>, <<<<"-", "5", "0", "0">>>>,
               <<<<"x">>, <<"4", "0">>>>, <<<<"-", "5", "0", "0">>, <<"4", "0">>>>}

\* a row of group i; the rows of group 2 name no doctor
GroupRow(i, visit, amount) ==
    [BaseRow EXCEPT !.MA_LK = visit,
                    !.KHOA = <<"K">> \o FmtNat(i),
                    !.MA_BENH = <<"I">> \o FmtNat(i),
                    !.DICH_VU = <<"s">> \o FmtNat(i),
                    !.BAC_SY = IF i = 2 THEN Undefined ELSE <<"D">> \o FmtNat(i),
                    !.THANH_TIEN = amount]

\* g groups of one row each, then the rows of the plan, all of group target
GroupRows(g, pattern, plan, target) ==
    [i \in 1..(g + Len(plan)) |->
        IF i <= g THEN GroupRow(i, <<"V">> \o FmtNat(i), FmtNat(PatternAmount(pattern, i, g)))
        ELSE GroupRow(target, <<"X">> \o FmtNat(i - g), plan[i - g])]

\* the last two days of 2023, one of them late in the evening, and the days around the
\* end of January 2024
DayTexts == {SlashText(30, 12, 2023), SlashText(31, 12, 2023),
             Compact14Text(2023, 12, 31, 23, 59, 59), SlashText(1, 1, 2024),
             SlashText(31, 1, 2024), SlashText(1, 2, 2024)}
DayChoices == [NGAY_THANH_TOAN : DayTexts, MA_LK : VisitCodes]
DayRowOf(c, i) ==
    [BaseRow EXCEPT !.NGAY_THANH_TOAN = c.NGAY_THANH_TOAN, !.MA_LK = c.MA_LK,
                    !.THANH_TIEN = AmountAt(i)]

(***************************************************************************)
(* Specification of the chart rollups: a filtered set is on display, the   *)
(* chartData memo is computed, and tables are exported.                    *)
(***************************************************************************)
ChartIdle ==
    /\ pc = "kpiDone"
    /\ rows = <<>>
    /\ now = KpiClock
    /\ filteredData = rawData
    /\ idx = 0
    /\ visitDaysMap = <<>> /\ visitTypeMap = <<>> /\ visitCostMap = <<>>
    /\ kpiStats = Null
    /\ chartData = Null
    /\ DateIdle
    /\ AppIdle
    /\ UiIdle

\* record sets of many departments, diagnoses, services and doctors
InitChart ==
    /\ \E g \in ChartSizes, pattern \in CostPatterns, plan \in ExtraPlans,
          target \in {1, 2, MaxChartGroups} :
           /\ target <= (IF g = 0 THEN 1 ELSE g)
           /\ rawData = processRawData(GroupRows(g, pattern, plan, target), KpiClock)
    /\ ChartIdle

\* record sets of a few rows on days around the end of a year and of a month
InitByDate ==
    /\ \E n \in 1..MaxDateRows :
           \E f \in [1..n -> DayChoices] :
               rawData = processRawData([i \in 1..n |-> DayRowOf(f[i], i)], KpiClock)
    /\ ChartIdle

NextChart == ChartAggregate \/ \E name \in ExportedRollups : ExportCSV(name)

SpecByDate == InitByDate /\ [][NextChart]_vars

SpecChart == InitChart /\ [][NextChart]_vars

(***************************************************************************)
(* Properties of the chart rollups.                                        *)
(***************************************************************************)
Charted == pc = "rendered" /\ chartData # Null

\* the rows of the filtered set whose field is k, their cost and their distinct visits
RowsWith(field, k) == SelectSeq(filteredData, LAMBDA d : d[field] = k)
CostOf(field, k) == SumCost(RowsWith(field, k))
VisitsOf(field, k) == Num(Cardinality(FieldSet(RowsWith(field, k), "MA_LK")))

NamesOf(list) == {list[i].name : i \in 1..Len(list)}

\* list holds the limit groups of a field with the largest metric, in non-increasing
\* order of the metric, each with its metric over all rows of the group
TopGroups(list, Metric(_), field, limit) ==
    LET groups == FieldSet(filteredData, field)
    IN  /\ Len(list) <= limit
        /\ Len(list) = (IF Cardinality(groups) < limit THEN Cardinality(groups) ELSE limit)
        /\ Cardinality(NamesOf(list)) = Len(list)
        /\ NamesOf(list) \subseteq groups
        /\ Descending(list, "value")
        /\ \A i \in 1..Len(list) : list[i].value = Metric(list[i].name)
        /\ \A k \in groups \ NamesOf(list) :
               \A i \in 1..Len(list) : ~JsGt(Metric(k), list[i].value)

DeptCostOf(k) == CostOf("KHOA", k)
DeptVisitsOf(k) == VisitsOf("KHOA", k)
IcdVisitsOf(k) == VisitsOf("MA_BENH", k)
ServiceCostOf(k) == CostOf("DICH_VU", k)

\* C23 as stated: byDept and visitsByDept hold the at most 10 departments of largest cost
\* and of most distinct visits, topICD and topServices the at most 20 diagnosis codes of
\* most distinct visits and services of largest cost; each is in non-increasing order of
\* its metric, each value is the metric over all filtered rows of the group, and no
\* omitted group has a larger metric than an included one.
C23_AsStated ==
    (Charted /\ filteredData # <<>>) =>
        /\ TopGroups(chartData.byDept, DeptCostOf, "KHOA", TopDept)
        /\ TopGroups(chartData.visitsByDept, DeptVisitsOf, "KHOA", TopDept)
        /\ TopGroups(chartData.topICD, IcdVisitsOf, "MA_BENH", TopCount)
        /\ TopGroups(chartData.topServices, ServiceCostOf, "DICH_VU", TopCount)

\* no amount of the filtered set is NaN
AmountsParsed == \A i \in 1..Len(filteredData) : filteredData[i].THANH_TIEN # NaN

C23_OnParsedAmounts == AmountsParsed => C23_AsStated

\* more departments than byDept holds, and more services than topServices holds
C23_Truncated ==
    /\ Charted /\ AmountsParsed
    /\ Cardinality(FieldSet(filteredData, "KHOA")) > Len(chartData.byDept)
    /\ Cardinality(FieldSet(filteredData, "DICH_VU")) > Len(chartData.topServices)

\* the calendar days of the filtered set, and the k-th of them in chronological order
DaysShown == {filteredData[i].NGAY_THONG_KE.day : i \in 1..Len(filteredData)}
KthDay(k) == CHOOSE d \in DaysShown : Cardinality({e \in DaysShown : e < d}) = k - 1
RowsOn(day) == SelectSeq(filteredData, LAMBDA d : d.NGAY_THONG_KE.day = day)

\* C24: byDate has exactly one entry per distinct calendar day of NGAY_THONG_KE, in
\* chronological order whatever the order of the rows, also across the turn of a month
\* and of a year; each entry carries the sum of THANH_TIEN and the number of distinct
\* MA_LK of the rows of its day.
C24_Chronological ==
    Charted =>
        /\ Len(chartData.byDate) = Cardinality(DaysShown)
        /\ \A k \in 1..Len(chartData.byDate) :
               /\ chartData.byDate[k].date = FormatDM(RowsOn(KthDay(k))[1].NGAY_THONG_KE)
               /\ chartData.byDate[k].totalCost = SumCost(RowsOn(KthDay(k)))
               /\ chartData.byDate[k].totalVisits
                      = Cardinality(FieldSet(RowsOn(KthDay(k)), "MA_LK"))

\* three rows, the first of 2024 and the other two of one day of 2023 and of two visits
C24_Witness ==
    /\ Charted /\ Len(filteredData) = 3
    /\ filteredData[1].NAM = 2024 /\ filteredData[2].NAM = 2023
    /\ filteredData[2].NGAY_THONG_KE.day = filteredData[3].NGAY_THONG_KE.day
    /\ filteredData[2].NGAY_THONG_KE.sec # filteredData[3].NGAY_THONG_KE.sec
    /\ filteredData[2].MA_LK # filteredData[3].MA_LK
    /\ Len(chartData.byDate) = 2 /\ chartData.byDate[1].totalVisits = 2

\* the slices of a pie that stand for one group, and the one that stands for the others
NamedSlices(pie) == SelectSeq(pie, LAMBDA sl : sl.name # S_Khac)
OtherSlices(pie) == SelectSeq(pie, LAMBDA sl : sl.name = S_Khac)

RECURSIVE SumOver(_, _)
SumOver(Cost(_), keys) ==
    IF keys = {} THEN Num(0)
    ELSE LET k == CHOOSE x \in keys : TRUE
         IN  JsAdd(SumOver(Cost, keys \ {k}), Cost(k))

\* pie shows at most top groups by name, each with its cost and none of smaller cost
\* than a group it leaves out, one slice with the summed cost of the groups left out,
\* and its values add up to the cost of all groups
PieOfTop(pie, groups, Label(_), Cost(_), top) ==
    LET named == NamedSlices(pie)
        shown == {k \in groups : \E i \in 1..Len(named) : named[i].name = Label(k)}
    IN  /\ Len(named) <= top /\ Len(OtherSlices(pie)) <= 1
        /\ Cardinality(shown) = Len(named)
        /\ \A k \in shown : \A i \in 1..Len(named) :
               named[i].name = Label(k) => named[i].value = Cost(k)
        /\ \A k \in shown : \A o \in groups \ shown : ~JsGt(Cost(o), Cost(k))
        /\ JsEq(SumSlices(OtherSlices(pie)), SumOver(Cost, groups \ shown))
        /\ JsEq(SumSlices(pie), SumOver(Cost, groups))

ServiceLabel(k) ==
    k \o <<" ", "(">> \o RowsWith("DICH_VU", k)[1].TEN_NHOM \o <<")">>
DoctorLabel(k) == k
DoctorCostOf(k) == CostOf("BAC_SY", k)
KnownDoctors == FieldSet(filteredData, "BAC_SY") \ {S_Unknown}

\* C25 as stated: topServicesPie is the 6 services of largest cost and one slice with the
\* summed cost of all other services, docPieData the 5 known doctors of largest cost and
\* one slice with the summed cost of the other known doctors; the values of each add up
\* to the cost of all groups of its dimension.
C25_AsStated ==
    Charted =>
        /\ PieOfTop(chartData.topServicesPie, FieldSet(filteredData, "DICH_VU"),
                    ServiceLabel, ServiceCostOf, PieServices)
        /\ PieOfTop(chartData.docPieData, KnownDoctors, DoctorLabel, DoctorCostOf,
                    PieDoctors)

C25_OnNonNegativeAmounts == AmountsNonNegative => C25_AsStated

\* seven or more services and six or more known doctors: both pies have their slice of
\* the others
C25_WithOthers ==
    /\ Charted /\ AmountsNonNegative
    /\ Len(OtherSlices(chartData.topServicesPie)) = 1
    /\ Len(OtherSlices(chartData.docPieData)) = 1
    /\ Len(chartData.topServicesPie) = PieServices + 1
    /\ Len(chartData.docPieData) = PieDoctors + 1

\* the rollup the last export was given
ExportedRollup == chartData[exported.name]

Quoted(text) == <<"\"">> \o text \o <<"\"">>

\* csv is a header line of the keys joined by commas, then one line per object of the
\* rollup with every value in double quotes, joined by commas
SerializesRollup(csv, rollup, keys) ==
    LET lines == Split(csv, "\n")
    IN  /\ Len(lines) = 1 + Len(rollup)
        /\ Split(lines[1], ",") = [i \in 1..Len(keys) |-> KeyText(keys[i])]
        /\ \A r \in 1..Len(rollup) :
               Split(lines[r + 1], ",")
                   = [i \in 1..Len(keys) |-> Quoted(ValueText(rollup[r], keys[i]))]

\* C28 as stated: the exporter serializes any rollup, a rollup of no rows included,
\* without raising an error: a header line of the keys of the first object, then one line
\* per object with every value in double quotes, the lines joined by newlines.
C28_AsStated ==
    (pc = "rendered" /\ exported # Null) =>
        /\ exported.csv # TypeError
        /\ ExportedRollup # <<>> =>
               SerializesRollup(exported.csv, ExportedRollup, RollupKeys(exported.name))

C28_OnRows == (pc = "rendered" /\ exported # Null /\ ExportedRollup # <<>>) => C28_AsStated

\* a table of two doctors was exported
C28_Exported ==
    /\ pc = "rendered" /\ exported # Null
    /\ exported.name = "allDocs" /\ Len(ExportedRollup) = 2
    /\ exported.csv # TypeError

\* the export of a rollup of no rows raised a TypeError
C28_Raised ==
    pc = "rendered" /\ exported # Null /\ ExportedRollup = <<>> /\ exported.csv = TypeError

(***************************************************************************)
(* toggleICD (src/App.tsx): the diagnosis codes selected for comparison.   *)
(***************************************************************************)
MaxSelected == 5    \* selectedICDs.length >= 5
MaxIcdCodes == 6    \* the diagnosis codes the table offers

IcdCodes == {<<"I">> \o FmtNat(i) : i \in 1..MaxIcdCodes}

\* variant: a code is appended whatever the number of selected codes
toggleICDUnlimited(selected, icd) ==
    IF \E i \in 1..Len(selected) : selected[i] = icd
    THEN SelectSeq(selected, LAMBDA i : i # icd)
    ELSE selected \o <<icd>>

\* the selection after toggleICD(icd), called in a render whose selectedICDs is the
\* state the updaters are applied to
toggleICD(selected, icd) ==
    IF \E i \in 1..Len(selected) : selected[i] = icd
    THEN SelectSeq(selected, LAMBDA i : i # icd)
    ELSE IF Len(selected) >= MaxSelected
    THEN selected
    ELSE selected \o <<icd>>

InitToggle ==
    /\ pc = "icd"
    /\ now = KpiClock
    /\ rows = <<>> /\ rawData = <<>>
    /\ DateIdle
    /\ KpiIdle
    /\ AppIdle
    /\ UiIdle

\* a click on the button of a code, and the render that follows
ToggleICD(icd) ==
    /\ pc = "icd"
    /\ selectedICDs' = toggleICD(selectedICDs, icd)
    /\ UNCHANGED <<pc, dateVars, normVars, kpiVars, appVars, exported, page, searchTerm,
                   tableData>>

NextToggle == \E icd \in IcdCodes : ToggleICD(icd)

SpecToggle == InitToggle /\ [][NextToggle]_vars

Selected(list) == {list[i] : i \in 1..Len(list)}
NoDuplicates(list) == Cardinality(Selected(list)) = Len(list)

\* list without its element at position i
Without(list, i) == SubSeq(list, 1, i - 1) \o SubSeq(list, i + 1, Len(list))

\* C29: after any sequence of toggles, each followed by a render, selectedICDs holds at
\* most 5 codes and none twice; a toggle of a selected code removes exactly that code, a
\* toggle of another code appends it when fewer than 5 are selected and changes nothing
\* when 5 are.
C29_Toggle ==
    [][/\ Len(selectedICDs') <= MaxSelected
       /\ NoDuplicates(selectedICDs')
       /\ \/ \E i \in 1..Len(selectedICDs) : selectedICDs' = Without(selectedICDs, i)
          \/ /\ Len(selectedICDs) < MaxSelected
             /\ \E icd \in IcdCodes \ Selected(selectedICDs) :
                    selectedICDs' = Append(selectedICDs, icd)]_vars

\* five codes are selected, the sixth is not
C29_Witness ==
    /\ pc = "icd" /\ Len(selectedICDs) = MaxSelected
    /\ IcdCodes \ Selected(selectedICDs) # {}

(***************************************************************************)
(* DataTable (src/components/DataTable.tsx): search and pagination.        *)
(***************************************************************************)
pageSize == 10      \* useState(10)
MaxPage == 6        \* the page number stops growing here
MaxTableRows == 21  \* longest data prop

TableSizes == {0, 1, 5, 10, 11, 15, 20, MaxTableRows}
TableOf(n) == [i \in 1..n |-> [name |-> <<"I">> \o FmtNat(i)]]
SearchTerms == {<<>>, <<"1">>, <<"i", "2">>, <<"z">>}

\* data.filter(item => Object.values(item).some(val =>
\*     String(val).toLowerCase().includes(searchTerm.toLowerCase())))
Matches(item, term) == Includes(ToLowerCase(item.name), ToLowerCase(term))
TableFiltered(data, term) == SelectSeq(data, LAMBDA item : Matches(item, term))

\* Math.ceil(filteredData.length / pageSize)
totalPages(data, term) == (Len(TableFiltered(data, term)) + pageSize - 1) \div pageSize

\* filteredData.slice((page - 1) * pageSize, page * pageSize)
paginatedData(data, term, p) ==
    LET filtered == TableFiltered(data, term)
        from == (p - 1) * pageSize + 1
        to == IF p * pageSize < Len(filtered) THEN p * pageSize ELSE Len(filtered)
    IN  IF from > Len(filtered) THEN <<>> ELSE SubSeq(filtered, from, to)

\* the table is mounted with the data prop of its first render
InitTable ==
    /\ pc = "table"
    /\ now = KpiClock
    /\ rows = <<>> /\ rawData = <<>>
    /\ DateIdle
    /\ KpiIdle
    /\ AppIdle
    /\ exported = Null /\ selectedICDs = <<>>
    /\ page = 1 /\ searchTerm = <<>>
    /\ \E n \in TableSizes : tableData = TableOf(n)

\* the button of the next page, disabled on the last page and without pages
NextPage ==
    /\ pc = "table"
    /\ ~(page = totalPages(tableData, searchTerm) \/ totalPages(tableData, searchTerm) = 0)
    /\ page < MaxPage
    /\ page' = page + 1
    /\ UNCHANGED <<pc, dateVars, normVars, kpiVars, appVars, exported, selectedICDs,
                   searchTerm, tableData>>

\* the button of the previous page, disabled on page 1
PrevPage ==
    /\ pc = "table"
    /\ page # 1
    /\ page' = page - 1
    /\ UNCHANGED <<pc, dateVars, normVars, kpiVars, appVars, exported, selectedICDs,
                   searchTerm, tableData>>

\* onChange of the search input
SetSearchTerm(term) ==
    /\ pc = "table"
    /\ searchTerm' = term
    /\ page' = 1
    /\ UNCHANGED <<pc, dateVars, normVars, kpiVars, appVars, exported, selectedICDs,
                   tableData>>

\* the parent renders the table with another data prop; the state of the table is kept
SetData(n) ==
    /\ pc = "table"
    /\ tableData' = TableOf(n)
    /\ UNCHANGED <<pc, dateVars, normVars, kpiVars, appVars, exported, selectedICDs, page,
                   searchTerm>>

NextTableFixed == NextPage \/ PrevPage \/ \E term \in SearchTerms : SetSearchTerm(term)
NextTable == NextTableFixed \/ \E n \in TableSizes : SetData(n)

SpecTable == InitTable /\ [][NextTable]_vars

\* the table when its data prop never changes
SpecTableFixed == InitTable /\ [][NextTableFixed]_vars

\* C30 as stated: after any sequence of clicks on next and previous, changes of the
\* search term and changes of the data prop, 1 <= page <= max(1, totalPages), so a table
\* whose search-filtered data is not empty never shows the row of the empty state.
C30_AsStated ==
    pc = "table" =>
        /\ 1 <= page
        /\ page <= (IF totalPages(tableData, searchTerm) < 1 THEN 1
                    ELSE totalPages(tableData, searchTerm))
        /\ TableFiltered(tableData, searchTerm) # <<>> =>
               paginatedData(tableData, searchTerm, page) # <<>>

\* page 2 of a table whose data all fit on page 1: the row of the empty state is shown
C30_EmptyPage ==
    /\ pc = "table" /\ page = 2
    /\ Len(TableFiltered(tableData, searchTerm)) = 5
    /\ paginatedData(tableData, searchTerm, page) = <<>>

====
